---- MODULE Spec2Model ----
(***************************************************************************)
(* Supplier discovery pipeline of blue-red-c: LocationService, SerpService *)
(* and SearchOrchestrator (src/app/services).  Text is modelled as tuples  *)
(* of one-character strings so that lower-casing, cleaning, tokenising,    *)
(* substring tests and the regular expressions of the code are computed.   *)
(***************************************************************************)
EXTENDS Integers, Sequences, FiniteSets, TLC

(***************************************************************************)
(* Characters and elementary string functions (Python str methods).        *)
(***************************************************************************)
Digits == {"0", "1", "2", "3", "4", "5", "6", "7", "8", "9"}

LowerLetters == {"a", "b", "c", "d", "e", "f", "g", "h", "i", "j", "k", "l", "m",
                 "n", "o", "p", "q", "r", "s", "t", "u", "v", "w", "x", "y", "z"}

UpperToLower == [A |-> "a", B |-> "b", C |-> "c", D |-> "d", E |-> "e", F |-> "f",
                 G |-> "g", H |-> "h", I |-> "i", J |-> "j", K |-> "k", L |-> "l",
                 M |-> "m", N |-> "n", O |-> "o", P |-> "p", Q |-> "q", R |-> "r",
                 S |-> "s", T |-> "t", U |-> "u", V |-> "v", W |-> "w", X |-> "x",
                 Y |-> "y", Z |-> "z"]

UpperLetters == DOMAIN UpperToLower

\* Cyrillic letters that occur in the texts the code itself writes ("Тел", "Адрес")
\* and in its patterns: each is one character, named by its transliteration.
CyrUpperToLower == [cyr_T |-> "cyr_t", cyr_A |-> "cyr_a"]

CyrLower == {"cyr_t", "cyr_e", "cyr_l", "cyr_a", "cyr_d", "cyr_r", "cyr_s",
             "cyr_f", "cyr_o", "cyr_n", "cyr_g"}

CyrUpper == DOMAIN CyrUpperToLower

Whitespace == {" "}

\* \w of Python's re on str: letters of any script, digits and the underscore
WordChars == Digits \cup LowerLetters \cup UpperLetters \cup CyrLower \cup CyrUpper \cup {"_"}

\* str.lower() on one character
LowerChar(c) ==
    IF c \in UpperLetters THEN UpperToLower[c]
    ELSE IF c \in CyrUpper THEN CyrUpperToLower[c]
    ELSE c

\* str.lower()
Lower(s) == [i \in 1..Len(s) |-> LowerChar(s[i])]

RECURSIVE LStrip(_)
LStrip(s) == IF s # <<>> /\ Head(s) \in Whitespace THEN LStrip(Tail(s)) ELSE s

RECURSIVE RStrip(_)
RStrip(s) ==
    IF s # <<>> /\ s[Len(s)] \in Whitespace THEN RStrip(SubSeq(s, 1, Len(s) - 1)) ELSE s

\* str.strip()
Strip(s) == LStrip(RStrip(s))

\* needle in haystack (Python's substring test on str)
Contains(haystack, needle) ==
    \E i \in 1..(Len(haystack) - Len(needle) + 1) :
        SubSeq(haystack, i, i + Len(needle) - 1) = needle

\* str.split(): the maximal runs of non-whitespace characters, in order
RECURSIVE SplitFrom(_, _, _)
SplitFrom(s, i, word) ==
    IF i > Len(s) THEN (IF word = <<>> THEN <<>> ELSE <<word>>)
    ELSE IF s[i] \in Whitespace
         THEN (IF word = <<>> THEN <<>> ELSE <<word>>) \o SplitFrom(s, i + 1, <<>>)
         ELSE SplitFrom(s, i + 1, Append(word, s[i]))

Split(s) == SplitFrom(s, 1, <<>>)

\* sep.join(parts)
RECURSIVE Join(_, _)
Join(sep, parts) ==
    IF parts = <<>> THEN <<>>
    ELSE IF Len(parts) = 1 THEN parts[1]
    ELSE parts[1] \o sep \o Join(sep, Tail(parts))

\* re.sub(r'[^\w\s]', ' ', s)
ReplaceNonWord(s) ==
    [i \in 1..Len(s) |-> IF s[i] \in WordChars \cup Whitespace THEN s[i] ELSE " "]

\* re.sub(r'\s+', ' ', s): every run of whitespace becomes one space
RECURSIVE CollapseSpaces(_)
CollapseSpaces(s) ==
    IF s = <<>> THEN <<>>
    ELSE IF Head(s) \in Whitespace
         THEN <<" ">> \o CollapseSpaces(LStrip(s))
         ELSE <<Head(s)>> \o CollapseSpaces(Tail(s))

(***************************************************************************)
(* LocationService (src/app/services/location_service.py).                 *)
(***************************************************************************)
\* self.country_language_map in insertion order.  The keys written in Cyrillic
\* are left out: a location over the Latin alphabet matches none of them, as a
\* word or as a substring, and each country's first entry is a Latin one.
country_language_map == <<
    [key |-> <<"k", "a", "z", "a", "k", "h", "s", "t", "a", "n">>, country_code |-> "kz", language |-> "ru", primary_language |-> "ru"],
    [key |-> <<"a", "l", "m", "a", "t", "y">>, country_code |-> "kz", language |-> "ru", primary_language |-> "ru"],
    [key |-> <<"a", "s", "t", "a", "n", "a">>, country_code |-> "kz", language |-> "ru", primary_language |-> "ru"],
    [key |-> <<"r", "u", "s", "s", "i", "a">>, country_code |-> "ru", language |-> "ru", primary_language |-> "ru"],
    [key |-> <<"m", "o", "s", "c", "o", "w">>, country_code |-> "ru", language |-> "ru", primary_language |-> "ru"],
    [key |-> <<"s", "a", "i", "n", "t", " ", "p", "e", "t", "e", "r", "s", "b", "u", "r", "g">>, country_code |-> "ru", language |-> "ru", primary_language |-> "ru"],
    [key |-> <<"u", "k", "r", "a", "i", "n", "e">>, country_code |-> "ua", language |-> "uk", primary_language |-> "uk"],
    [key |-> <<"k", "y", "i", "v">>, country_code |-> "ua", language |-> "uk", primary_language |-> "uk"],
    [key |-> <<"b", "e", "l", "a", "r", "u", "s">>, country_code |-> "by", language |-> "ru", primary_language |-> "ru"],
    [key |-> <<"m", "i", "n", "s", "k">>, country_code |-> "by", language |-> "ru", primary_language |-> "ru"],
    [key |-> <<"u", "z", "b", "e", "k", "i", "s", "t", "a", "n">>, country_code |-> "uz", language |-> "uz", primary_language |-> "uz"],
    [key |-> <<"t", "a", "s", "h", "k", "e", "n", "t">>, country_code |-> "uz", language |-> "uz", primary_language |-> "uz"],
    [key |-> <<"k", "y", "r", "g", "y", "z", "s", "t", "a", "n">>, country_code |-> "kg", language |-> "ky", primary_language |-> "ky"],
    [key |-> <<"b", "i", "s", "h", "k", "e", "k">>, country_code |-> "kg", language |-> "ky", primary_language |-> "ky"],
    [key |-> <<"t", "a", "j", "i", "k", "i", "s", "t", "a", "n">>, country_code |-> "tj", language |-> "tg", primary_language |-> "tg"],
    [key |-> <<"d", "u", "s", "h", "a", "n", "b", "e">>, country_code |-> "tj", language |-> "tg", primary_language |-> "tg"],
    [key |-> <<"t", "u", "r", "k", "m", "e", "n", "i", "s", "t", "a", "n">>, country_code |-> "tm", language |-> "tk", primary_language |-> "tk"],
    [key |-> <<"a", "s", "h", "g", "a", "b", "a", "t">>, country_code |-> "tm", language |-> "tk", primary_language |-> "tk"],
    [key |-> <<"a", "z", "e", "r", "b", "a", "i", "j", "a", "n">>, country_code |-> "az", language |-> "az", primary_language |-> "az"],
    [key |-> <<"b", "a", "k", "u">>, country_code |-> "az", language |-> "az", primary_language |-> "az"],
    [key |-> <<"a", "r", "m", "e", "n", "i", "a">>, country_code |-> "am", language |-> "hy", primary_language |-> "hy"],
    [key |-> <<"y", "e", "r", "e", "v", "a", "n">>, country_code |-> "am", language |-> "hy", primary_language |-> "hy"],
    [key |-> <<"g", "e", "o", "r", "g", "i", "a">>, country_code |-> "ge", language |-> "ka", primary_language |-> "ka"],
    [key |-> <<"t", "b", "i", "l", "i", "s", "i">>, country_code |-> "ge", language |-> "ka", primary_language |-> "ka"],
    [key |-> <<"m", "o", "l", "d", "o", "v", "a">>, country_code |-> "md", language |-> "ro", primary_language |-> "ro"],
    [key |-> <<"c", "h", "i", "s", "i", "n", "a", "u">>, country_code |-> "md", language |-> "ro", primary_language |-> "ro"],
    [key |-> <<"g", "e", "r", "m", "a", "n", "y">>, country_code |-> "de", language |-> "de", primary_language |-> "de"],
    [key |-> <<"d", "e", "u", "t", "s", "c", "h", "l", "a", "n", "d">>, country_code |-> "de", language |-> "de", primary_language |-> "de"],
    [key |-> <<"b", "e", "r", "l", "i", "n">>, country_code |-> "de", language |-> "de", primary_language |-> "de"],
    [key |-> <<"f", "r", "a", "n", "c", "e">>, country_code |-> "fr", language |-> "fr", primary_language |-> "fr"],
    [key |-> <<"p", "a", "r", "i", "s">>, country_code |-> "fr", language |-> "fr", primary_language |-> "fr"],
    [key |-> <<"i", "t", "a", "l", "y">>, country_code |-> "it", language |-> "it", primary_language |-> "it"],
    [key |-> <<"i", "t", "a", "l", "i", "a">>, country_code |-> "it", language |-> "it", primary_language |-> "it"],
    [key |-> <<"r", "o", "m", "e">>, country_code |-> "it", language |-> "it", primary_language |-> "it"],
    [key |-> <<"s", "p", "a", "i", "n">>, country_code |-> "es", language |-> "es", primary_language |-> "es"],
    [key |-> <<"m", "a", "d", "r", "i", "d">>, country_code |-> "es", language |-> "es", primary_language |-> "es"],
    [key |-> <<"u", "n", "i", "t", "e", "d", " ", "k", "i", "n", "g", "d", "o", "m">>, country_code |-> "gb", language |-> "en", primary_language |-> "en"],
    [key |-> <<"u", "k">>, country_code |-> "gb", language |-> "en", primary_language |-> "en"],
    [key |-> <<"l", "o", "n", "d", "o", "n">>, country_code |-> "gb", language |-> "en", primary_language |-> "en"],
    [key |-> <<"p", "o", "l", "a", "n", "d">>, country_code |-> "pl", language |-> "pl", primary_language |-> "pl"],
    [key |-> <<"w", "a", "r", "s", "a", "w">>, country_code |-> "pl", language |-> "pl", primary_language |-> "pl"],
    [key |-> <<"c", "h", "i", "n", "a">>, country_code |-> "cn", language |-> "zh", primary_language |-> "zh"],
    [key |-> <<"b", "e", "i", "j", "i", "n", "g">>, country_code |-> "cn", language |-> "zh", primary_language |-> "zh"],
    [key |-> <<"s", "h", "a", "n", "g", "h", "a", "i">>, country_code |-> "cn", language |-> "zh", primary_language |-> "zh"],
    [key |-> <<"j", "a", "p", "a", "n">>, country_code |-> "jp", language |-> "ja", primary_language |-> "ja"],
    [key |-> <<"t", "o", "k", "y", "o">>, country_code |-> "jp", language |-> "ja", primary_language |-> "ja"],
    [key |-> <<"s", "o", "u", "t", "h", " ", "k", "o", "r", "e", "a">>, country_code |-> "kr", language |-> "ko", primary_language |-> "ko"],
    [key |-> <<"s", "e", "o", "u", "l">>, country_code |-> "kr", language |-> "ko", primary_language |-> "ko"],
    [key |-> <<"i", "n", "d", "i", "a">>, country_code |-> "in", language |-> "en", primary_language |-> "en"],
    [key |-> <<"m", "u", "m", "b", "a", "i">>, country_code |-> "in", language |-> "en", primary_language |-> "en"],
    [key |-> <<"d", "e", "l", "h", "i">>, country_code |-> "in", language |-> "en", primary_language |-> "en"],
    [key |-> <<"t", "u", "r", "k", "e", "y">>, country_code |-> "tr", language |-> "tr", primary_language |-> "tr"],
    [key |-> <<"i", "s", "t", "a", "n", "b", "u", "l">>, country_code |-> "tr", language |-> "tr", primary_language |-> "tr"],
    [key |-> <<"a", "n", "k", "a", "r", "a">>, country_code |-> "tr", language |-> "tr", primary_language |-> "tr"],
    [key |-> <<"u", "n", "i", "t", "e", "d", " ", "s", "t", "a", "t", "e", "s">>, country_code |-> "us", language |-> "en", primary_language |-> "en"],
    [key |-> <<"u", "s", "a">>, country_code |-> "us", language |-> "en", primary_language |-> "en"],
    [key |-> <<"n", "e", "w", " ", "y", "o", "r", "k">>, country_code |-> "us", language |-> "en", primary_language |-> "en"],
    [key |-> <<"l", "o", "s", " ", "a", "n", "g", "e", "l", "e", "s">>, country_code |-> "us", language |-> "en", primary_language |-> "en"],
    [key |-> <<"c", "a", "n", "a", "d", "a">>, country_code |-> "ca", language |-> "en", primary_language |-> "en"],
    [key |-> <<"t", "o", "r", "o", "n", "t", "o">>, country_code |-> "ca", language |-> "en", primary_language |-> "en"],
    [key |-> <<"v", "a", "n", "c", "o", "u", "v", "e", "r">>, country_code |-> "ca", language |-> "en", primary_language |-> "en"],
    [key |-> <<"b", "r", "a", "z", "i", "l">>, country_code |-> "br", language |-> "pt", primary_language |-> "pt"],
    [key |-> <<"s", "a", "o", " ", "p", "a", "u", "l", "o">>, country_code |-> "br", language |-> "pt", primary_language |-> "pt"],
    [key |-> <<"r", "i", "o", " ", "d", "e", " ", "j", "a", "n", "e", "i", "r", "o">>, country_code |-> "br", language |-> "pt", primary_language |-> "pt"],
    [key |-> <<"m", "e", "x", "i", "c", "o">>, country_code |-> "mx", language |-> "es", primary_language |-> "es"],
    [key |-> <<"m", "e", "x", "i", "c", "o", " ", "c", "i", "t", "y">>, country_code |-> "mx", language |-> "es", primary_language |-> "es"]>>

\* self.additional_languages
additional_languages ==
    [kz |-> <<"kk", "en">>, ru |-> <<"en">>, ua |-> <<"ru", "en">>, by |-> <<"en">>,
     uz |-> <<"ru", "en">>, kg |-> <<"ru", "en">>, tj |-> <<"ru", "en">>,
     tm |-> <<"ru", "en">>, az |-> <<"ru", "en">>, am |-> <<"ru", "en">>,
     ge |-> <<"ru", "en">>, md |-> <<"ru", "en">>]

\* another default, the first entry of the table for the USA
DefaultCountryInfoUS == [country_code |-> "us", language |-> "en", primary_language |-> "en"]

DefaultCountryInfo == [country_code |-> "kz", language |-> "ru", primary_language |-> "ru"]

CountryInfo(entry) ==
    [country_code |-> entry.country_code, language |-> entry.language,
     primary_language |-> entry.primary_language]

\* index of the table entry whose key is the word, 0 when the word is no key
KeyIndex(word) ==
    IF \E k \in 1..Len(country_language_map) : country_language_map[k].key = word
    THEN CHOOSE k \in 1..Len(country_language_map) : country_language_map[k].key = word
    ELSE 0

\* another first loop: the last word that is a key
RECURSIVE LastWordMatch(_)
LastWordMatch(words) ==
    IF words = <<>> THEN 0
    ELSE IF KeyIndex(words[Len(words)]) # 0 THEN KeyIndex(words[Len(words)])
    ELSE LastWordMatch(SubSeq(words, 1, Len(words) - 1))

\* first loop of detect_country_and_language: the first word that is a key
RECURSIVE FirstWordMatch(_)
FirstWordMatch(words) ==
    IF words = <<>> THEN 0
    ELSE IF KeyIndex(Head(words)) # 0 THEN KeyIndex(Head(words))
    ELSE FirstWordMatch(Tail(words))

\* second loop: the first key, in table order, that is a substring of location_lower
FirstSubstringMatch(location_lower) ==
    LET hits == {k \in 1..Len(country_language_map) :
                    Contains(location_lower, country_language_map[k].key)}
    IN  IF hits = {} THEN 0 ELSE CHOOSE k \in hits : \A j \in hits : k <= j

detect_country_and_language(location) ==
    IF location = <<>> THEN DefaultCountryInfo
    ELSE LET location_lower == Strip(Lower(location))
             location_clean == Strip(CollapseSpaces(ReplaceNonWord(location_lower)))
             words == Split(location_clean)
             w == FirstWordMatch(words)
             p == FirstSubstringMatch(location_lower)
         IN  IF w # 0 THEN CountryInfo(country_language_map[w])
             ELSE IF p # 0 THEN CountryInfo(country_language_map[p])
             ELSE DefaultCountryInfo

\* the location texts of the model: at most MaxLocationWords words
MaxLocationWords == 2

LocationWords ==
    {<<"B", "e", "r", "l", "i", "n">>,
     <<"G", "e", "r", "m", "a", "n", "y">>,
     <<"N", "e", "w">>,
     <<"Y", "o", "r", "k">>,
     <<"U", "S", "A">>,
     <<"M", "i", "l", "w", "a", "u", "k", "e", "e">>,
     <<"A", "t", "l", "a", "n", "t", "i", "s">>}

LocationSeparators == {<<",", " ">>, <<" ">>}

RECURSIVE LocationsOf(_)
LocationsOf(n) ==
    IF n = 0 THEN {<<>>}
    ELSE IF n = 1 THEN LocationWords
    ELSE {l \o sep \o w : l \in LocationsOf(n - 1), sep \in LocationSeparators, w \in LocationWords}

RECURSIVE LocationsUpTo(_)
LocationsUpTo(n) == IF n = 0 THEN LocationsOf(0) ELSE LocationsOf(n) \cup LocationsUpTo(n - 1)


Loc_Berlin_Germany == <<"B", "e", "r", "l", "i", "n", ",", " ", "G", "e", "r", "m", "a", "n", "y">>

Loc_New_York_USA == <<"N", "e", "w", " ", "Y", "o", "r", "k", ",", " ", "U", "S", "A">>

Loc_Almaty == <<"A", "l", "m", "a", "t", "y">>

Loc_New_York_Berlin == <<"N", "e", "w", " ", "Y", "o", "r", "k", " ", "B", "e", "r", "l", "i", "n">>

TargetLocations == {Loc_Berlin_Germany, Loc_Almaty}

\* the locations detect_country_and_language is called with
Locations ==
    LocationsUpTo(MaxLocationWords)
        \cup {Loc_Berlin_Germany, Loc_New_York_USA, Loc_Almaty, Loc_New_York_Berlin}

\* list(set(languages)): the languages without duplicates; Python leaves the
\* order of the list open (string hashing is randomised per process)
SearchLanguageSet(country_code) ==
    LET firsts == {k \in 1..Len(country_language_map) :
                      country_language_map[k].country_code = country_code}
        primary == IF firsts = {} THEN {}
                   ELSE {country_language_map[CHOOSE k \in firsts : \A j \in firsts : k <= j].language}
        extra == IF country_code \in DOMAIN additional_languages
                 THEN {additional_languages[country_code][i] :
                          i \in 1..Len(additional_languages[country_code])}
                 ELSE {}
    IN  primary \cup extra

\* every order list(set(...)) can produce
Orderings(S) ==
    {seq \in [1..Cardinality(S) -> S] : \A i, j \in 1..Cardinality(S) : i # j => seq[i] # seq[j]}

get_search_languages(country_code) == Orderings(SearchLanguageSet(country_code))

(***************************************************************************)
(* Regular expressions of the code.  Every pattern used by the orchestrator*)
(* is a sequence of quantified character classes; an atom is a class with  *)
(* its least and greatest repetition (hi = -1: unbounded).  Matching is    *)
(* Python's: leftmost, greedy, backtracking; findall scans left to right   *)
(* and returns the non-overlapping matches.                                *)
(***************************************************************************)
Rep(cls, lo, hi) == [cls |-> cls, lo |-> lo, hi |-> hi]

One(cls) == Rep(cls, 1, 1)

Opt(cls) == Rep(cls, 0, 1)

Star(cls) == Rep(cls, 0, -1)

Plus(cls) == Rep(cls, 1, -1)

\* a literal character under re.IGNORECASE
AnyCase(c) == {c} \cup {u \in UpperLetters \cup CyrUpper : LowerChar(u) = c}

\* length of the run of characters of cls starting at pos, at most max (-1: any)
RECURSIVE RunLen(_, _, _, _)
RunLen(cls, s, pos, max) ==
    IF max = 0 \/ pos > Len(s) \/ s[pos] \notin cls THEN 0
    ELSE 1 + RunLen(cls, s, pos + 1, IF max = -1 THEN -1 ELSE max - 1)

\* position after the match of atoms k.. of pat at pos, 0 when there is none
RECURSIVE MatchFrom(_, _, _, _)
RECURSIVE TryCounts(_, _, _, _, _)
MatchFrom(pat, k, s, pos) ==
    IF k > Len(pat) THEN pos
    ELSE LET run == RunLen(pat[k].cls, s, pos, pat[k].hi)
         IN  IF run < pat[k].lo THEN 0 ELSE TryCounts(pat, k, s, pos, run)

TryCounts(pat, k, s, pos, count) ==
    IF count < pat[k].lo THEN 0
    ELSE LET end == MatchFrom(pat, k + 1, s, pos + count)
         IN  IF end # 0 THEN end ELSE TryCounts(pat, k, s, pos, count - 1)

\* re.findall(pat, s) for a pattern without groups
RECURSIVE FindAllFrom(_, _, _)
FindAllFrom(pat, s, pos) ==
    IF pos > Len(s) THEN <<>>
    ELSE LET end == MatchFrom(pat, 1, s, pos)
         IN  IF end > pos
             THEN <<SubSeq(s, pos, end - 1)>> \o FindAllFrom(pat, s, end)
             ELSE FindAllFrom(pat, s, pos + 1)

FindAll(pat, s) == FindAllFrom(pat, s, 1)

\* findall over a list of patterns, pattern by pattern
RECURSIVE FindAllEach(_, _)
FindAllEach(pats, s) ==
    IF pats = <<>> THEN <<>> ELSE FindAll(Head(pats), s) \o FindAllEach(Tail(pats), s)

SpaceDash == Whitespace \cup {"-"}

PhoneChars == Digits \cup Whitespace \cup {"-", "(", ")"}

LabelSeparators == Whitespace \cup {":"}

LabelDigits == Digits \cup Whitespace \cup {"+", "-", "(", ")"}

\* r'\+7\s?\(?[0-9]{3}\)?\s?[0-9]{3}[\s\-]?[0-9]{2}[\s\-]?[0-9]{2}'
RussianTail ==
    <<Opt(Whitespace), Opt({"("}), Rep(Digits, 3, 3), Opt({")"}), Opt(Whitespace),
      Rep(Digits, 3, 3), Opt(SpaceDash), Rep(Digits, 2, 2), Opt(SpaceDash), Rep(Digits, 2, 2)>>

PatRussianPlus7 == <<One({"+"}), One({"7"})>> \o RussianTail

\* r'8\s?\(?[0-9]{3}\)?\s?[0-9]{3}[\s\-]?[0-9]{2}[\s\-]?[0-9]{2}'
PatRussian8 == <<One({"8"})>> \o RussianTail

\* r'\+[0-9]{1,3}\s?[0-9]{3,4}\s?[0-9]{3,4}\s?[0-9]{3,4}'
PatInternational ==
    <<One({"+"}), Rep(Digits, 1, 3), Opt(Whitespace), Rep(Digits, 3, 4), Opt(Whitespace),
      Rep(Digits, 3, 4), Opt(Whitespace), Rep(Digits, 3, 4)>>

\* r'[0-9]{3}[\s\-]?[0-9]{3}[\s\-]?[0-9]{4}'
PatAmerican ==
    <<Rep(Digits, 3, 3), Opt(SpaceDash), Rep(Digits, 3, 3), Opt(SpaceDash), Rep(Digits, 4, 4)>>

\* r'[\+]?[0-9\s\-\(\)]{10,}'
PatGeneral == <<Opt({"+"}), Rep(PhoneChars, 10, -1)>>

\* r'<label>[:\s]*[0-9\+\-\(\)\s]+' under re.IGNORECASE
LabelPattern(label) ==
    [i \in 1..Len(label) |-> One(AnyCase(label[i]))]
        \o <<Star(LabelSeparators), Plus(LabelDigits)>>

\* r'тел[а-я]*[:\s]*[0-9\+\-\(\)\s]+' under re.IGNORECASE
PatTel ==
    <<One(AnyCase("cyr_t")), One(AnyCase("cyr_e")), One(AnyCase("cyr_l")),
      Star(CyrLower \cup CyrUpper), Star(LabelSeparators), Plus(LabelDigits)>>

\* phone_patterns of _extract_contact_info, in list order
StrictPhonePatterns ==
    <<PatRussianPlus7, PatRussian8, PatInternational, PatAmerican, PatGeneral>>

\* phone_patterns of _has_phone_number, in list order
LenientPhonePatterns ==
    <<PatGeneral, PatRussianPlus7, PatRussian8, PatInternational, PatAmerican,
      PatTel,
      LabelPattern(<<"p", "h", "o", "n", "e">>),
      LabelPattern(<<"cyr_t", "cyr_e", "cyr_l", "cyr_e", "cyr_f", "cyr_o", "cyr_n">>),
      LabelPattern(<<"c", "a", "l", "l">>),
      LabelPattern(<<"c", "o", "n", "t", "a", "c", "t">>)>>

CyrLettersAndSpace == CyrLower \cup CyrUpper \cup Whitespace

LatinLettersAndSpace == LowerLetters \cup UpperLetters \cup Whitespace

\* address_patterns of _extract_contact_info, in list order
AddressPatterns ==
    <<  \* r'г\.\s*[А-Яа-я\s]+,\s*[А-Яа-я\s]+'
        <<One({"cyr_g"}), One({"."}), Star(Whitespace), Plus(CyrLettersAndSpace),
          One({","}), Star(Whitespace), Plus(CyrLettersAndSpace)>>,
        \* r'[А-Яа-я\s]+,\s*[0-9]+'
        <<Plus(CyrLettersAndSpace), One({","}), Star(Whitespace), Plus(Digits)>>,
        \* r'[A-Za-z\s]+,\s*[A-Za-z\s]+,\s*[0-9]+'
        <<Plus(LatinLettersAndSpace), One({","}), Star(Whitespace),
          Plus(LatinLettersAndSpace), One({","}), Star(Whitespace), Plus(Digits)>> >>

EmailLocalChars == LowerLetters \cup UpperLetters \cup Digits \cup {".", "_", "%", "+", "-"}

EmailDomainChars == LowerLetters \cup UpperLetters \cup Digits \cup {".", "-"}

\* r'[a-zA-Z0-9._%+-]+@[a-zA-Z0-9.-]+\.[a-zA-Z]{2,}'
EmailPattern ==
    <<Plus(EmailLocalChars), One({"@"}), Plus(EmailDomainChars), One({"."}),
      Rep(LowerLetters \cup UpperLetters, 2, -1)>>

\* len(re.sub(r'[^\d]', '', s))
DigitCount(s) == Cardinality({i \in 1..Len(s) : s[i] \in Digits})

InSeq(x, seq) == \E i \in 1..Len(seq) : seq[i] = x

TelPrefix == <<"cyr_T", "cyr_e", "cyr_l", ":", " ">>

AddressPrefix == <<"cyr_A", "cyr_d", "cyr_r", "cyr_e", "cyr_s", ":", " ">>

SemicolonSpace == <<";", " ">>

(***************************************************************************)
(* SearchOrchestrator: snippet analysis (src/app/services/                 *)
(* search_orchestrator.py, extract_supplier_info and its helpers).        *)
(***************************************************************************)
\* "минимум 10 цифр" of extract_contact_info
MinStrictDigits == 10

\* "минимум 7 цифр" of has_phone_number
MinLenientDigits == 7

\* another loop: every match is kept, whatever its digits
CollectPhonesUngated(matches, all_phones) ==
    all_phones \o [i \in 1..Len(matches) |-> CollapseSpaces(Strip(matches[i]))]

\* the loop over the matches of extract_contact_info: a match is kept when its
\* cleaned form has at least MinStrictDigits digits and is not yet in all_phones
RECURSIVE CollectPhones(_, _)
CollectPhones(matches, all_phones) ==
    IF matches = <<>> THEN all_phones
    ELSE LET clean_phone == CollapseSpaces(Strip(Head(matches)))
         IN  CollectPhones(Tail(matches),
                 IF DigitCount(clean_phone) >= MinStrictDigits /\ ~InSeq(clean_phone, all_phones)
                 THEN Append(all_phones, clean_phone)
                 ELSE all_phones)

StrictPhones(snippet) == CollectPhones(FindAllEach(StrictPhonePatterns, snippet), <<>>)

\* the first address of the first address pattern that matches, as a list of 0 or 1
RECURSIVE FirstAddress(_, _)
FirstAddress(pats, snippet) ==
    IF pats = <<>> THEN <<>>
    ELSE LET addresses == FindAll(Head(pats), snippet)
         IN  IF addresses # <<>> THEN <<AddressPrefix \o Strip(addresses[1])>>
             ELSE FirstAddress(Tail(pats), snippet)

extract_contact_info(snippet) ==
    LET all_phones == StrictPhones(snippet)
        phones_str == Join(SemicolonSpace, [i \in 1..Len(all_phones) |-> TelPrefix \o all_phones[i]])
        contact_info == (IF all_phones # <<>> THEN <<phones_str>> ELSE <<>>)
                            \o FirstAddress(AddressPatterns, snippet)
    IN  Join(SemicolonSpace, contact_info)

\* list(set(emails)): the distinct addresses (their order in the list is open)
extract_email_addresses(snippet) ==
    LET emails == FindAll(EmailPattern, snippet)
    IN  {emails[i] : i \in 1..Len(emails)}

\* one of the two loops of has_phone_number
HasLenientMatch(text) ==
    LET matches == FindAllEach(LenientPhonePatterns, text)
    IN  \E i \in 1..Len(matches) : DigitCount(matches[i]) >= MinLenientDigits

has_phone_number(contact_info, snippet) ==
    HasLenientMatch(contact_info) \/ HasLenientMatch(snippet)

extract_company_name(title, snippet) ==
    LET words == Split(title)
    IN  IF Len(words) >= 2
        THEN Join(<<" ">>, SubSeq(words, 1, IF Len(words) < 3 THEN Len(words) ELSE 3))
        ELSE title

\* the fields the pydantic model SupplierResult declares, with their defaults;
\* name has none
SupplierResultDefaults ==
    [name |-> <<>>, website |-> <<>>, contact_info |-> <<>>, supplier_type |-> "postavshchik",
     location |-> "kz", rating |-> 0, verified |-> FALSE, source |-> ""]

\* SupplierResult(**kwargs): pydantic keeps the declared fields and ignores every
\* other keyword (the model sets no `extra`)
SupplierResult(kwargs) ==
    [f \in DOMAIN SupplierResultDefaults |->
        IF f \in DOMAIN kwargs THEN kwargs[f] ELSE SupplierResultDefaults[f]]

\* the three extraction results of one snippet, as _extract_supplier_info
\* computes them
SnippetAnalysis(snippet) ==
    LET contact_info == extract_contact_info(snippet)
    IN  [contact_info |-> contact_info,
         email_addresses |-> extract_email_addresses(snippet),
         has_phone |-> has_phone_number(contact_info, snippet)]

\* the snippets the provider's hits carry in this model
Snippet_phone == <<"+", "7", " ", "7", "0", "1", " ", "1", "2", "3", " ", "4", "5", " ", "6", "7">>

Snippet_email == <<"s", "a", "l", "e", "s", "@", "a", "c", "m", "e", ".", "d", "e">>

Snippet_short_phone == <<"c", "a", "l", "l", " ", "5", "5", "5", "1", "2", "3", "4">>

Snippet_phone_email == <<"T", "e", "l", " ", "8", " ", "(", "7", "0", "1", ")", " ", "1", "2", "3", "-", "4", "5", "-", "6", "7", " ", "b", "@", "c", ".", "d", "e">>

Snippet_plain == <<"w", "h", "o", "l", "e", "s", "a", "l", "e", " ", "l", "a", "p", "t", "o", "p", "s">>

Snippets == {Snippet_phone, Snippet_email, Snippet_short_phone, Snippet_phone_email,
             Snippet_plain}

\* SnippetAnalysis of the model's snippets, evaluated once
SnippetMemo == [s \in Snippets |-> SnippetAnalysis(s)]

\* _extract_supplier_info: a list holding the record, or empty for None
extract_supplier_info(search_result, location_params) ==
    LET extracted == IF search_result.snippet \in Snippets
                     THEN SnippetMemo[search_result.snippet]
                     ELSE SnippetAnalysis(search_result.snippet)
        contact_info == extracted.contact_info
        email_addresses == extracted.email_addresses
        has_phone == extracted.has_phone
        has_email == Cardinality(email_addresses) > 0
    IN  IF ~has_phone /\ ~has_email THEN <<>>
        ELSE <<SupplierResult(
                 [name |-> extract_company_name(search_result.title, search_result.snippet),
                  website |-> search_result.link,
                  contact_info |-> contact_info,
                  email_addresses |-> email_addresses,
                  supplier_type |-> "supplier",
                  location |-> IF "country_code" \in DOMAIN location_params
                               THEN location_params.country_code ELSE "kz",
                  rating |-> 0,
                  verified |-> FALSE,
                  source |-> search_result.source])>>

(***************************************************************************)
(* SerpService (src/app/services/serp_service.py).  Keyword arguments are  *)
(* records: a key that was not passed is not in the record's DOMAIN.       *)
(* None and the empty string are both the empty tuple: the code only tests *)
(* their truth value.                                                      *)
(***************************************************************************)
\* self.max_results: settings.MAX_SEARCH_RESULTS of the deployment
MaxSearchResults == 2

Min(a, b) == IF a < b THEN a ELSE b

\* {**a, **b}
Merge(a, b) == [k \in DOMAIN a \cup DOMAIN b |-> IF k \in DOMAIN b THEN b[k] ELSE a[k]]

\* dict(kwargs) without the key k
Without(kwargs, k) == [j \in DOMAIN kwargs \ {k} |-> kwargs[j]]

get_location_params(kwargs) ==
    IF "location" \in DOMAIN kwargs /\ kwargs.location # <<>>
    THEN LET location_info == detect_country_and_language(kwargs.location)
         IN  [country_code |-> location_info.country_code, language |-> location_info.language]
    ELSE IF /\ "product_data" \in DOMAIN kwargs
            /\ kwargs.product_data # <<>>
            /\ kwargs.product_data[1].location # <<>>
    THEN LET location_info == detect_country_and_language(kwargs.product_data[1].location)
         IN  [country_code |-> location_info.country_code, language |-> location_info.language]
    ELSE IF "country_code" \in DOMAIN kwargs /\ "language" \in DOMAIN kwargs
    THEN [country_code |-> kwargs.country_code, language |-> kwargs.language]
    ELSE [country_code |-> "kz", language |-> "ru"]

\* the key of the provider's answer that _parse_search_results reads
ResultKey(search_type) ==
    IF search_type = "web" THEN "organic_results"
    ELSE IF search_type = "news" THEN "news_results"
    ELSE IF search_type = "images" THEN "images_results"
    ELSE "none"

\* another parser: no result at all when one of the hits is malformed
ParseAllOrNothing(raw, i) ==
    IF \E j \in i..Len(raw) : raw[j].shape # "dict" THEN <<>>
    ELSE [j \in 1..(Len(raw) - i + 1) |->
             [title |-> raw[i + j - 1].title, link |-> raw[i + j - 1].link,
              snippet |-> raw[i + j - 1].snippet, position |-> i + j - 1,
              source |-> raw[i + j - 1].source]]

\* the loop of _parse_search_results: results.append(SearchResult(...)) hit by
\* hit; a hit that is no dict (result.get raises) or whose title is null
\* (SearchResult rejects it) raises inside the try, and the results appended
\* so far are returned
RECURSIVE ParseHits(_, _)
ParseHits(raw, i) ==
    IF i > Len(raw) THEN <<>>
    ELSE IF raw[i].shape # "dict" THEN <<>>
    ELSE <<[title |-> raw[i].title, link |-> raw[i].link, snippet |-> raw[i].snippet,
            position |-> i, source |-> raw[i].source]>> \o ParseHits(raw, i + 1)

\* _parse_search_results(data, search_type); outcome is what get_dict() gave
parse_search_results(outcome, search_type) ==
    IF outcome.kind # "dict" THEN <<>>
    ELSE IF ResultKey(search_type) \notin DOMAIN outcome.data THEN <<>>
    ELSE LET listed == outcome.data[ResultKey(search_type)]
         IN  IF ~listed.is_list THEN <<>>
             ELSE ParseHits(SubSeq(listed.items, 1, Min(Len(listed.items), MaxSearchResults)), 1)

SearchTbm(search_type) ==
    IF search_type = "news" THEN <<"nws">>
    ELSE IF search_type = "images" THEN <<"isch">>
    ELSE IF search_type = "videos" THEN <<"vid">>
    ELSE <<>>

\* the params dict search() hands to GoogleSearch (api_key and engine are the
\* same in every request); an optional entry is a list of 0 or 1 values
SearchParams(query, search_type, kwargs) ==
    LET location_params == get_location_params(kwargs)
    IN  [q |-> query,
         num |-> Min(IF "max_results" \in DOMAIN kwargs THEN kwargs.max_results
                     ELSE MaxSearchResults, MaxSearchResults),
         gl |-> location_params.country_code,
         hl |-> location_params.language,
         tbm |-> SearchTbm(search_type),
         as_sitesearch |-> IF "site" \in DOMAIN kwargs THEN <<kwargs.site>> ELSE <<>>,
         tbs |-> IF "date_range" \in DOMAIN kwargs THEN <<kwargs.date_range>> ELSE <<>>,
         as_filetype |-> IF "filetype" \in DOMAIN kwargs THEN <<kwargs.filetype>> ELSE <<>>]

\* the SearchResponse of search(): the parsed results when the provider call
\* and the parsing return, the empty response of the except branch otherwise
SearchResponse(query, results) ==
    [query |-> query, results |-> results, total_results |-> Len(results)]

search(query, search_type, kwargs, outcome) ==
    [params |-> SearchParams(query, search_type, kwargs),
     response |-> IF outcome.kind = "exception"
                  THEN SearchResponse(query, <<>>)
                  ELSE SearchResponse(query, parse_search_results(outcome, search_type))]

\* another fallback rule: a second call after every primary call
AlwaysFallback(result) == TRUE

\* `if not result.results` of search_with_fallback
NeedsFallback(result) == result.results = <<>>

\* search_with_fallback: primary is the provider's answer to the first call,
\* fallback its answer to the second, if that call is made
search_with_fallback(query, search_type, kwargs, primary, fallback) ==
    LET first == search(query, search_type, kwargs, primary)
        fallback_kwargs == Merge(kwargs, [max_results |-> MaxSearchResults])
        second == search(query, search_type, fallback_kwargs, fallback)
    IN  IF NeedsFallback(first.response)
        THEN [calls |-> <<first.params, second.params>>, response |-> second.response]
        ELSE [calls |-> <<first.params>>, response |-> first.response]

\* the languages _get_contact_keywords has a list for
ContactKeywordLanguages ==
    {"ru", "en", "de", "fr", "it", "es", "uk", "kk", "uz", "ky", "tg", "tk", "az", "hy",
     "ka", "ro", "pl", "zh", "ja", "ko", "tr", "pt"}

\* _get_contact_keywords: the keyword list of the language, the English one for
\* any other; a list is named by its language
get_contact_keywords(language) ==
    IF language \in ContactKeywordLanguages THEN language ELSE "en"

\* _enhance_query_for_contact_pages: the query text
\* ((original_query) AND (contact_terms)) AND (terms_query); the contact terms
\* of a language are written as the language's name, the terms_query, the same
\* in every call, as "terms"
enhance_query_for_contact_pages(original_query, contact_keywords) ==
    <<"(", "(">> \o original_query \o <<")", " AND ", "(", contact_keywords, ")", ")",
                                         " AND ", "(", "terms", ")">>

\* " OR ".join([f"site:{site}" for site in site_restrictions])
RECURSIVE SiteFilter(_)
SiteFilter(site_restrictions) ==
    IF site_restrictions = <<>> THEN <<>>
    ELSE <<"site:", Head(site_restrictions)[1], ".", Head(site_restrictions)[2]>>
            \o (IF Len(site_restrictions) > 1 THEN <<" OR ">> ELSE <<>>)
            \o SiteFilter(Tail(site_restrictions))

CisCountries == {"kz", "ru", "ua", "by", "uz", "kg", "tj", "tm", "az", "am", "ge", "md"}

\* get_local_sources: the three directory hosts of a CIS country, each named
\* by its country code and host
get_local_sources(country_code) ==
    IF country_code \in CisCountries
    THEN <<<<country_code, "all.biz">>, <<country_code, "exportpages.com">>,
           <<country_code, "tradekey.com">>>>
    ELSE <<>>

\* SerpService.search_suppliers(query, product_data, **kwargs); product_data is
\* a list of 0 or 1 ProductData
serp_search_suppliers(query, product_data, kwargs, primary, fallback) ==
    LET located == product_data # <<>> /\ product_data[1].location # <<>>
        location_info == detect_country_and_language(product_data[1].location)
        country_code == IF located THEN location_info.country_code
                        ELSE IF "country_code" \in DOMAIN kwargs THEN kwargs.country_code
                        ELSE "kz"
        language == IF located THEN location_info.language
                    ELSE IF "language" \in DOMAIN kwargs THEN kwargs.language
                    ELSE "ru"
        local_sources == get_local_sources(country_code)
        kwargs1 == IF located /\ local_sources # <<>> /\ "site_restrictions" \notin DOMAIN kwargs
                   THEN Merge(kwargs, [site_restrictions |-> SubSeq(local_sources, 1, 3)])
                   ELSE kwargs
        enhanced == enhance_query_for_contact_pages(query, get_contact_keywords(language))
        all_kwargs == Merge(kwargs1, [gl |-> country_code, hl |-> language])
        enhanced_query == IF "site_restrictions" \in DOMAIN all_kwargs
                          THEN <<"(">> \o enhanced \o <<")", " ", "(">>
                                   \o SiteFilter(all_kwargs.site_restrictions) \o <<")">>
                          ELSE enhanced
        search_type == IF "search_type" \in DOMAIN all_kwargs THEN all_kwargs.search_type
                       ELSE "web"
    IN  search_with_fallback(enhanced_query, search_type, Without(all_kwargs, "search_type"),
                             primary, fallback)

\* get_search_parameters(product_data); languages is the list get_search_languages gave
get_search_parameters(product_data, languages) ==
    LET country_info == detect_country_and_language(product_data.location)
    IN  [country_code |-> country_info.country_code,
         language |-> country_info.language,
         primary_language |-> country_info.primary_language,
         search_languages |-> languages]

\* another parameter list: the first search language only
FirstLanguageParams(product_data, languages) ==
    LET base_params == get_search_parameters(product_data, languages)
    IN  [i \in 1..Min(1, Len(base_params.search_languages)) |->
            [country_code |-> base_params.country_code,
             language |-> base_params.search_languages[i],
             primary_language |-> base_params.primary_language]]

\* get_multilingual_search_params
get_multilingual_search_params(product_data, languages) ==
    LET base_params == get_search_parameters(product_data, languages)
    IN  [i \in 1..Len(base_params.search_languages) |->
            [country_code |-> base_params.country_code,
             language |-> base_params.search_languages[i],
             primary_language |-> base_params.primary_language]]

\* multilingual_search: one search per entry of the parameter list;
\* outcomes[i] is the provider's answer to the i-th call
multilingual_search(query, product_data, kwargs, languages, outcomes) ==
    LET search_params_list == get_multilingual_search_params(product_data, languages)
        each == [i \in 1..Len(search_params_list) |->
                    search(query, "web",
                           Merge(kwargs, [country_code |-> search_params_list[i].country_code,
                                          language |-> search_params_list[i].language]),
                           outcomes[i])]
    IN  [calls |-> [i \in 1..Len(each) |-> each[i].params],
         results |-> [i \in 1..Len(each) |-> each[i].response]]

(***************************************************************************)
(* SearchOrchestrator: query generation (_generate_supplier_queries).      *)
(***************************************************************************)
\* the literal pieces of the f-strings
Txt_supplier == <<" ", "s", "u", "p", "p", "l", "i", "e", "r">>

Txt_in == <<" ", "i", "n", " ">>

Txt_wholesale_in == <<" ", "w", "h", "o", "l", "e", "s", "a", "l", "e", " ", "i", "n", " ">>

Txt_suppliers_in == <<" ", "s", "u", "p", "p", "l", "i", "e", "r", "s", " ", "i", "n", " ">>

Txt_buy == <<"b", "u", "y">>

Txt_buy_ == <<"b", "u", "y", " ">>

Txt_deliver == <<" ", "d", "e", "l", "i", "v", "e", "r", " ">>

Txt_supplier_catalog_in == <<" ", "s", "u", "p", "p", "l", "i", "e", "r", " ", "c", "a", "t", "a", "l", "o", "g", " ", "i", "n", " ">>

Txt_price_list_suppliers_in == <<" ", "p", "r", "i", "c", "e", " ", "l", "i", "s", "t", " ", "s", "u", "p", "p", "l", "i", "e", "r", "s", " ", "i", "n", " ">>

Txt_wholesale_suppliers_in == <<" ", "w", "h", "o", "l", "e", "s", "a", "l", "e", " ", "s", "u", "p", "p", "l", "i", "e", "r", "s", " ", "i", "n", " ">>

Txt_catalog == <<" ", "c", "a", "t", "a", "l", "o", "g">>

Txt_verified_suppliers_in == <<" ", "v", "e", "r", "i", "f", "i", "e", "d", " ", "s", "u", "p", "p", "l", "i", "e", "r", "s", " ", "i", "n", " ">>

Txt_reliable_suppliers_in == <<" ", "r", "e", "l", "i", "a", "b", "l", "e", " ", "s", "u", "p", "p", "l", "i", "e", "r", "s", " ", "i", "n", " ">>

Txt_official_suppliers_in == <<" ", "o", "f", "f", "i", "c", "i", "a", "l", " ", "s", "u", "p", "p", "l", "i", "e", "r", "s", " ", "i", "n", " ">>

Txt_trusted_supplier == <<" ", "t", "r", "u", "s", "t", "e", "d", " ", "s", "u", "p", "p", "l", "i", "e", "r">>

Txt_local_suppliers_in == <<" ", "l", "o", "c", "a", "l", " ", "s", "u", "p", "p", "l", "i", "e", "r", "s", " ", "i", "n", " ">>

Txt_regional_suppliers_in == <<" ", "r", "e", "g", "i", "o", "n", "a", "l", " ", "s", "u", "p", "p", "l", "i", "e", "r", "s", " ", "i", "n", " ">>

Txt_nearby_suppliers_in == <<" ", "n", "e", "a", "r", "b", "y", " ", "s", "u", "p", "p", "l", "i", "e", "r", "s", " ", "i", "n", " ">>

Txt_local == <<" ", "l", "o", "c", "a", "l">>

Txt_space == <<" ">>

Txt_urgent_in == <<" ", "u", "r", "g", "e", "n", "t", " ", "i", "n", " ">>
\* LocationService.get_full_location_name is called by the orchestrator and by
\* test_debug_supplier_queries.py but is defined in no file of src/: the
\* human-readable form of the location that the specification names, taken to
\* be the location text itself
get_full_location_name(location) == location

\* the base templates of a strategy and its "buy ... deliver" template
BaseQueries(search_query, full_location, strategy) ==
    IF strategy = "direct"
    THEN <<search_query \o Txt_supplier \o Txt_in \o full_location,
           search_query \o Txt_wholesale_in \o full_location,
           search_query \o Txt_suppliers_in \o full_location>>
    ELSE IF strategy = "catalog"
    THEN <<search_query \o Txt_supplier_catalog_in \o full_location,
           search_query \o Txt_price_list_suppliers_in \o full_location,
           search_query \o Txt_wholesale_suppliers_in \o full_location>>
    ELSE IF strategy = "trusted"
    THEN <<search_query \o Txt_verified_suppliers_in \o full_location,
           search_query \o Txt_reliable_suppliers_in \o full_location,
           search_query \o Txt_official_suppliers_in \o full_location>>
    ELSE IF strategy = "local"
    THEN <<search_query \o Txt_local_suppliers_in \o full_location,
           search_query \o Txt_regional_suppliers_in \o full_location,
           search_query \o Txt_nearby_suppliers_in \o full_location>>
    ELSE <<search_query \o Txt_supplier>>

DeliverQuery(search_query, full_location, strategy, date_and_time) ==
    Txt_buy_ \o search_query \o Txt_in \o full_location \o Txt_deliver \o date_and_time
        \o (IF strategy = "catalog" THEN Txt_catalog
            ELSE IF strategy = "trusted" THEN Txt_trusted_supplier
            ELSE IF strategy = "local" THEN Txt_local
            ELSE <<>>)

\* `"buy" in query`
HasBuy(query) == Contains(query, Txt_buy)

\* first loop of the amount block: every query, and after a query with "buy"
\* in it (when a delivery date is given) that query with the amount appended
RECURSIVE EnhanceDated(_, _, _)
EnhanceDated(queries, amount, date_and_time) ==
    IF queries = <<>> THEN <<>>
    ELSE <<Head(queries)>>
            \o (IF HasBuy(Head(queries)) /\ date_and_time # <<>>
                THEN <<Head(queries) \o Txt_space \o amount>> ELSE <<>>)
            \o EnhanceDated(Tail(queries), amount, date_and_time)

\* second loop: every query without "buy" in it, with the amount appended
RECURSIVE EnhancePlain(_, _)
EnhancePlain(queries, amount) ==
    IF queries = <<>> THEN <<>>
    ELSE (IF ~HasBuy(Head(queries)) THEN <<Head(queries) \o Txt_space \o amount>> ELSE <<>>)
            \o EnhancePlain(Tail(queries), amount)

generate_supplier_queries(search_query, amount, location_params, strategy, date_and_time) ==
    LET full_location == get_full_location_name(
                             IF "location" \in DOMAIN location_params
                             THEN location_params.location ELSE <<>>)
        queries == BaseQueries(search_query, full_location, strategy)
                       \o (IF date_and_time # <<>>
                           THEN <<DeliverQuery(search_query, full_location, strategy, date_and_time)>>
                           ELSE <<>>)
    IN  IF amount # <<>>
        THEN EnhanceDated(queries, amount, date_and_time) \o EnhancePlain(queries, amount)
        ELSE queries

(***************************************************************************)
(* SearchOrchestrator: product search (search_by_product_data).            *)
(***************************************************************************)
ElectronicsWords ==
    <<<<"e", "l", "e", "c", "t", "r", "o", "n", "i", "c", "s">>,
      <<"c", "o", "m", "p", "u", "t", "e", "r">>,
      <<"l", "a", "p", "t", "o", "p">>,
      <<"s", "m", "a", "r", "t", "p", "h", "o", "n", "e">>>>

ClothingWords ==
    <<<<"c", "l", "o", "t", "h", "i", "n", "g">>,
      <<"s", "h", "o", "e", "s">>,
      <<"t", "e", "x", "t", "i", "l", "e">>>>

FoodWords ==
    <<<<"f", "o", "o", "d">>,
      <<"p", "r", "o", "d", "u", "c", "t", "s">>,
      <<"n", "u", "t", "r", "i", "t", "i", "o", "n">>>>

ConstructionWords ==
    <<<<"c", "o", "n", "s", "t", "r", "u", "c", "t", "i", "o", "n">>,
      <<"m", "a", "t", "e", "r", "i", "a", "l", "s">>>>

KeywordStopWords ==
    <<<<"f", "o", "r">>,
      <<"t", "h", "e">>,
      <<"t", "h", "i", "s">>,
      <<"t", "h", "a", "t">>>>

Type_supplier == <<"s", "u", "p", "p", "l", "i", "e", "r">>

Type_electronics == <<"e", "l", "e", "c", "t", "r", "o", "n", "i", "c", "s", " ", "d", "i", "s", "t", "r", "i", "b", "u", "t", "o", "r">>

Type_clothing == <<"w", "h", "o", "l", "e", "s", "a", "l", "e", " ", "c", "l", "o", "t", "h", "i", "n", "g", " ", "s", "u", "p", "p", "l", "i", "e", "r">>

Type_food == <<"f", "o", "o", "d", " ", "s", "u", "p", "p", "l", "i", "e", "r">>

Type_construction == <<"c", "o", "n", "s", "t", "r", "u", "c", "t", "i", "o", "n", " ", "m", "a", "t", "e", "r", "i", "a", "l", "s", " ", "s", "u", "p", "p", "l", "i", "e", "r">>
\* any(word in product_name for word in words)
AnyIn(words, text) == \E i \in 1..Len(words) : Contains(text, words[i])

\* the keyword loop of _analyze_product_for_supplier_search
RECURSIVE KeywordsOf(_)
KeywordsOf(words) ==
    IF words = <<>> THEN <<>>
    ELSE (IF Len(Head(words)) > 3 /\ ~InSeq(Head(words), KeywordStopWords)
          THEN <<Head(words)>> ELSE <<>>) \o KeywordsOf(Tail(words))

\* seq[:n]
Take(seq, n) == SubSeq(seq, 1, Min(Len(seq), n))

analyze_product_for_supplier_search(product_data) ==
    LET product_name == Lower(product_data.product_name)
    IN  [supplier_type |->
            IF AnyIn(ElectronicsWords, product_name) THEN Type_electronics
            ELSE IF AnyIn(ClothingWords, product_name) THEN Type_clothing
            ELSE IF AnyIn(FoodWords, product_name) THEN Type_food
            ELSE IF AnyIn(ConstructionWords, product_name) THEN Type_construction
            ELSE Type_supplier,
         keywords |-> Take(KeywordsOf(Split(product_name)), 5)]

generate_product_based_queries(search_query, supplier_type, keywords, location_params, amount, is_urgent, date_and_time) ==
    LET full_location == get_full_location_name(
                             IF "location" \in DOMAIN location_params
                             THEN location_params.location ELSE <<>>)
        main_query == search_query \o Txt_space \o supplier_type
    IN  <<main_query \o Txt_in \o full_location>>
        \o (IF amount # <<>>
            THEN <<main_query \o Txt_space \o amount \o Txt_in \o full_location>> ELSE <<>>)
        \o (IF is_urgent THEN <<main_query \o Txt_urgent_in \o full_location>> ELSE <<>>)
        \o (IF keywords # <<>>
            THEN <<search_query \o Txt_space \o Join(Txt_space, Take(keywords, 3))
                     \o Txt_in \o full_location>>
            ELSE <<>>)
        \o (IF date_and_time # <<>>
            THEN <<Txt_buy_ \o search_query \o Txt_in \o full_location \o Txt_deliver
                     \o date_and_time>>
                 \o (IF amount # <<>>
                     THEN <<Txt_buy_ \o search_query \o Txt_in \o full_location \o Txt_deliver
                              \o date_and_time \o Txt_space \o amount>>
                     ELSE <<>>)
            ELSE <<>>)

(***************************************************************************)
(* SearchOrchestrator: aggregation, persistence and the two pipelines.     *)
(***************************************************************************)
\* the candidates of _analyze_supplier_results before deduplication: the
\* records of the hits, responses in list order and hits in provider order
RECURSIVE HitRecords(_, _)
HitRecords(results, location_params) ==
    IF results = <<>> THEN <<>>
    ELSE extract_supplier_info(Head(results), location_params)
            \o HitRecords(Tail(results), location_params)

RECURSIVE Candidates(_, _)
Candidates(search_results, location_params) ==
    IF search_results = <<>> THEN <<>>
    ELSE HitRecords(Head(search_results).results, location_params)
            \o Candidates(Tail(search_results), location_params)

\* another dedup key, the name alone: under it two candidates with one website
\* and two names are both kept
DedupKeyByName(supplier) == supplier.name

\* key = supplier.website or supplier.name
DedupKey(supplier) == IF supplier.website # <<>> THEN supplier.website ELSE supplier.name

\* `if key not in unique_suppliers: unique_suppliers[key] = supplier`; the
\* dict keeps its keys in insertion order
RECURSIVE Unique(_, _)
Unique(suppliers, kept) ==
    IF suppliers = <<>> THEN kept
    ELSE Unique(Tail(suppliers),
                IF \E i \in 1..Len(kept) : DedupKey(kept[i]) = DedupKey(Head(suppliers))
                THEN kept ELSE Append(kept, Head(suppliers)))

analyze_supplier_results(search_results, location_params) ==
    Unique(Candidates(search_results, location_params), <<>>)

\* the fields the pydantic model ProductData declares, with their defaults
ProductDataDefaults ==
    [product_name |-> <<>>, amount |-> <<>>, date_and_time |-> <<>>, location |-> <<>>]

\* ProductData(**kwargs): undeclared keywords are ignored
ProductData(kwargs) ==
    [f \in DOMAIN ProductDataDefaults |->
        IF f \in DOMAIN kwargs THEN kwargs[f] ELSE ProductDataDefaults[f]]

\* _get_product_from_db: db is what the lookup met: no database object
\* (get_database() gave None when the orchestrator was built), a driver error,
\* no document, or the document.  Every exception is caught and gives None.
get_product_from_db(product_id, db) ==
    IF db.kind = "found"
    THEN <<ProductData([product_name |-> db.doc.product_name, amount |-> db.doc.amount,
                        date_time |-> db.doc.date_time, location |-> db.doc.location])>>
    ELSE <<>>

\* _save_search_session / _save_product_search_session: the id of the inserted
\* session, or "" when anything raised
save_search_session(session) == IF session = "inserted" THEN "session-id" ELSE ""

\* the keys of location_params whose values are strings; location_info is a
\* Dict[str, str], so pydantic rejects a response whose location_info holds the
\* list search_languages
StringValuedKeys == {"country_code", "language", "primary_language", "location"}

ValidLocationInfo(location_params) == DOMAIN location_params \subseteq StringValuedKeys

\* search_by_product_data; languages, outcomes and session are the answers of
\* get_search_languages, of the provider and of the session insert
search_by_product_data(request, db, languages, outcomes, session) ==
    LET product_data == get_product_from_db(request.product_id, db)
        analysis == analyze_product_for_supplier_search(product_data[1])
        location_params == Merge(get_search_parameters(product_data[1], languages),
                                 [location |-> request.target_location])
        search_queries == generate_product_based_queries(
                              product_data[1].product_name, analysis.supplier_type,
                              analysis.keywords, location_params, product_data[1].amount,
                              product_data[1].date_and_time # <<>>,
                              product_data[1].date_and_time)
        searched == multilingual_search(search_queries[1], product_data[1],
                                        [max_results |-> request.max_results],
                                        languages, outcomes)
        supplier_results == analyze_supplier_results(searched.results, location_params)
        session_id == save_search_session(session)
    IN  IF product_data = <<>>
        THEN [status |-> "raised", error |-> "ValueError", search_queries |-> <<>>,
              calls |-> <<>>, saved |-> FALSE, suppliers |-> <<>>]
        ELSE IF "target_location" \notin DOMAIN request
        THEN \* request.target_location: ProductSearchRequest declares no such field
             [status |-> "raised", error |-> "AttributeError", search_queries |-> <<>>,
              calls |-> <<>>, saved |-> FALSE, suppliers |-> <<>>]
        ELSE IF ~ValidLocationInfo(location_params)
        THEN [status |-> "raised", error |-> "ValidationError",
              search_queries |-> search_queries, calls |-> searched.calls,
              saved |-> session_id # "", suppliers |-> <<>>]
        ELSE [status |-> "returned", error |-> "", search_queries |-> search_queries,
              calls |-> searched.calls, saved |-> session_id # "",
              suppliers |-> supplier_results]

\* pydantic's ValidationError is a subclass of ValueError
ValueErrors == {"ValueError", "ValidationError"}

\* the product-search endpoints: `except ValueError` gives 404, any other
\* exception 500
product_search_endpoint(result) ==
    IF result.status = "returned" THEN 200
    ELSE IF result.error \in ValueErrors THEN 404
    ELSE 500

\* the supplier-search endpoints: any exception gives 500
supplier_search_endpoint(result) == IF result.status = "returned" THEN 200 ELSE 500

\* another loop: the first query whose search returns no results ends it
RECURSIVE SearchUntilEmpty(_, _, _, _, _)
SearchUntilEmpty(search_queries, product_data, request, answers, i) ==
    IF i > Len(search_queries) THEN [calls |-> <<>>, search_results |-> <<>>]
    ELSE LET done == serp_search_suppliers(search_queries[i], product_data,
                         [max_results |-> request.max_results,
                          search_type |-> request.search_type,
                          location |-> request.target_location],
                         answers[i][1], answers[i][2])
             rest == IF done.response.results = <<>>
                     THEN [calls |-> <<>>, search_results |-> <<>>]
                     ELSE SearchUntilEmpty(search_queries, product_data, request, answers, i + 1)
         IN  [calls |-> done.calls \o rest.calls,
              search_results |-> <<done.response>> \o rest.search_results]

\* the loop `for query in search_queries` of search_suppliers from the i-th
\* query on; answers[i] is the pair of provider answers (primary, fallback)
\* the supplier search of the i-th query meets
RECURSIVE SearchEachQuery(_, _, _, _, _)
SearchEachQuery(search_queries, product_data, request, answers, i) ==
    IF i > Len(search_queries) THEN [calls |-> <<>>, search_results |-> <<>>]
    ELSE LET done == serp_search_suppliers(search_queries[i], product_data,
                         [max_results |-> request.max_results,
                          search_type |-> request.search_type,
                          location |-> request.target_location],
                         answers[i][1], answers[i][2])
             rest == SearchEachQuery(search_queries, product_data, request, answers, i + 1)
         IN  [calls |-> done.calls \o rest.calls,
              search_results |-> <<done.response>> \o rest.search_results]

\* the product search_suppliers works with: the one of the database if
\* product_id is given and found, else the one of the request
RequestProduct(request, db) ==
    LET from_db == IF request.product_id # ""
                   THEN get_product_from_db(request.product_id, db) ELSE <<>>
    IN  IF from_db # <<>> THEN from_db ELSE request.product_data

\* location_params of search_suppliers
RequestLocationParams(request, product_data, languages) ==
    Merge(IF product_data # <<>>
          THEN get_search_parameters(product_data[1], languages)
          ELSE detect_country_and_language(request.target_location),
          [location |-> request.target_location])

(***************************************************************************)
(* The inputs of the model: requests, provider answers and database        *)
(* answers.  The services keep no state between calls (the database is     *)
(* only written), so a behaviour is one call of one operation.             *)
(***************************************************************************)
\* bounds
MaxHits == 3

MaxAnalyzeHits == 3

MaxQueries == 3

Text_laptop == <<"l", "a", "p", "t", "o", "p">>

Text_buyer_kit == <<"b", "u", "y", "e", "r", " ", "k", "i", "t">>

Text_50 == <<"5", "0">>

Text_date == <<"2", "5", ".", "0", "7">>





Title_acme == <<"A", "c", "m", "e", " ", "G", "m", "b", "H">>

Title_best == <<"B", "e", "s", "t", " ", "T", "o", "o", "l", "s", " ", "S", "h", "o", "p", " ", "O", "n", "l", "i", "n", "e">>

Link_a == <<"a", ".", "d", "e">>

Link_b == <<"b", ".", "d", "e">>


(***************************************************************************)
(* SupplierSearchService (src/app/services/supplier_search.py): the        *)
(* classifier pipeline behind find_suppliers.                              *)
(***************************************************************************)
\* [\s\-\.]
PhoneSeparators == Whitespace \cup {"-", "."}

\* the literal digits of a pattern, one atom each
Literal(chars) == [i \in 1..Len(chars) |-> One({chars[i]})]

\* [\s\-\.]*\d{1,4}, n times
RECURSIVE DigitGroups(_)
DigitGroups(n) ==
    IF n = 0 THEN <<>>
    ELSE <<Star(PhoneSeparators), Rep(Digits, 1, 4)>> \o DigitGroups(n - 1)

\* <prefix>[\s\-\.]*\d{3}[\s\-\.]*\d{4}
TollFree(prefix) ==
    Literal(prefix) \o <<Star(PhoneSeparators), Rep(Digits, 3, 3),
                         Star(PhoneSeparators), Rep(Digits, 4, 4)>>

\* 1[\s\-\.]*<prefix>[\s\-\.]*\d{3}[\s\-\.]*\d{4}
TollFreeWithOne(prefix) == <<One({"1"}), Star(PhoneSeparators)>> \o TollFree(prefix)

\* the patterns of _extract_phone_numbers, in the order of the list
ServicePhonePatterns ==
    << \* r'\(\d{3}\)\s*\d{3}[\s\-\.]*\d{4}'
       <<One({"("}), Rep(Digits, 3, 3), One({")"}), Star(Whitespace), Rep(Digits, 3, 3),
         Star(PhoneSeparators), Rep(Digits, 4, 4)>>,
       \* r'\d{3}[\s\-\.]*\d{3}[\s\-\.]*\d{4}'
       <<Rep(Digits, 3, 3), Star(PhoneSeparators), Rep(Digits, 3, 3),
         Star(PhoneSeparators), Rep(Digits, 4, 4)>>,
       \* r'\(\d{3}\)\s*\d{3}\s*\d{4}'
       <<One({"("}), Rep(Digits, 3, 3), One({")"}), Star(Whitespace), Rep(Digits, 3, 3),
         Star(Whitespace), Rep(Digits, 4, 4)>>,
       \* r'\+\d{1,3}[\s\-\.]*\d{1,4}[\s\-\.]*\d{1,4}[\s\-\.]*\d{1,4}'
       <<One({"+"}), Rep(Digits, 1, 3)>> \o DigitGroups(3),
       \* r'\+44[\s\-\.]*\d{1,4}[\s\-\.]*\d{1,4}[\s\-\.]*\d{1,4}'
       <<One({"+"})>> \o Literal(<<"4", "4">>) \o DigitGroups(3),
       \* r'0\d{1,4}[\s\-\.]*\d{1,4}[\s\-\.]*\d{1,4}'
       <<One({"0"}), Rep(Digits, 1, 4)>> \o DigitGroups(2),
       \* r'\+3\d[\s\-\.]*\d{1,4}[\s\-\.]*\d{1,4}[\s\-\.]*\d{1,4}'
       <<One({"+"}), One({"3"}), One(Digits)>> \o DigitGroups(3),
       TollFreeWithOne(<<"8", "0", "0">>),
       TollFree(<<"8", "0", "0">>),
       TollFreeWithOne(<<"8", "8", "8">>),
       TollFree(<<"8", "8", "8">>),
       TollFreeWithOne(<<"8", "7", "7">>),
       TollFree(<<"8", "7", "7">>),
       TollFreeWithOne(<<"8", "6", "6">>),
       TollFree(<<"8", "6", "6">>),
       \* r'\d{10}'
       <<Rep(Digits, 10, 10)>> >>

\* `digit_count >= 10` of _extract_phone_numbers
MinPhoneDigits == 10

\* re.sub(r'[^\d\+]', '', re.sub(r'\s', '', match))
CleanPhone(match) == SelectSeq(match, LAMBDA c : c \in Digits \cup {"+"})

\* the loop over the matches of _extract_phone_numbers
RECURSIVE CollectCleaned(_, _)
CollectCleaned(matches, phone_numbers) ==
    IF matches = <<>> THEN phone_numbers
    ELSE LET cleaned == CleanPhone(Head(matches))
         IN  CollectCleaned(Tail(matches),
                 IF DigitCount(cleaned) >= MinPhoneDigits /\ ~InSeq(cleaned, phone_numbers)
                 THEN Append(phone_numbers, cleaned)
                 ELSE phone_numbers)

\* _extract_phone_numbers: list(set(phone_numbers)), as the set of its elements
\* (the order of the list is open)
extract_phone_numbers(webpage_content) ==
    LET phone_numbers == CollectCleaned(FindAllEach(ServicePhonePatterns, webpage_content), <<>>)
    IN  {phone_numbers[i] : i \in 1..Len(phone_numbers)}

\* page and snippet texts for the phone extractors
PhoneText_repeated == <<"T", "e", "l", ":", " ", "+", "1", "-", "5", "5", "5", "-", "1", "2", "3", "-", "4", "5", "6", "7", ",", " ", "+", "1", "-", "5", "5", "5", "-", "1", "2", "3", "-", "4", "5", "6", "7">>

PhoneText_nine == <<"i", "d", " ", "1", "2", "3", "4", "5", "6", "7", "8", "9">>

PhoneText_tollfree == <<"1", "-", "8", "0", "0", "-", "5", "5", "5", "-", "0", "1", "9", "9">>

PhoneText_dotted == <<"5", "5", "5", ".", "1", "2", "3", ".", "4", "5", "6", "7">>

PhoneTexts == Snippets \cup {PhoneText_repeated, PhoneText_nine, PhoneText_tollfree,
                             PhoneText_dotted}

\* what the two extractors and the gate make of a text
PhoneAnalysis(text) ==
    LET contact_info == extract_contact_info(text)
    IN  [phone_numbers |-> extract_phone_numbers(text),
         all_phones |-> StrictPhones(text),
         contact_info |-> contact_info,
         matches |-> FindAllEach(LenientPhonePatterns, contact_info)
                         \o FindAllEach(LenientPhonePatterns, text),
         has_phone |-> has_phone_number(contact_info, text)]

PhoneMemo == [text \in PhoneTexts |-> PhoneAnalysis(text)]

\* A page text is its characters followed by pad further characters "x" (so a
\* text of thousands of characters is written down without spelling it out);
\* where pad is positive, chars is empty or ends in a character that is no
\* whitespace.
PageText(chars, pad) == [chars |-> chars, pad |-> pad]

EmptyText == PageText(<<>>, 0)

\* len(text)
TextLen(text) == Len(text.chars) + text.pad

\* another slice: the whole text
WholeText(text, n) == text

\* text[:n]
Truncate(text, n) ==
    IF Len(text.chars) >= n THEN PageText(SubSeq(text.chars, 1, n), 0)
    ELSE PageText(text.chars, Min(text.pad, n - Len(text.chars)))

\* s.split(sep) for a non-empty separator: the pieces between the occurrences
\* of sep, from the left, empty pieces included
RECURSIVE SplitBy(_, _, _)
SplitBy(s, sep, piece) ==
    IF s = <<>> THEN <<piece>>
    ELSE IF Len(s) >= Len(sep) /\ SubSeq(s, 1, Len(sep)) = sep
         THEN <<piece>> \o SplitBy(SubSeq(s, Len(sep) + 1, Len(s)), sep, <<>>)
         ELSE SplitBy(Tail(s), sep, Append(piece, Head(s)))

\* text.splitlines(): as split on the line break, without the empty last
\* line a trailing line break leaves
SplitLines(s) ==
    LET lines == SplitBy(s, <<"\n">>, <<>>)
    IN  IF lines[Len(lines)] = <<>> THEN SubSeq(lines, 1, Len(lines) - 1) ELSE lines

\* the chunks of the lines, in order: phrase.strip() for every line.strip() and
\* every phrase of line.split("  ")
RECURSIVE Chunks(_)
Chunks(lines) ==
    IF lines = <<>> THEN <<>>
    ELSE LET phrases == SplitBy(Strip(Head(lines)), <<" ", " ">>, <<>>)
         IN  [i \in 1..Len(phrases) |-> Strip(phrases[i])] \o Chunks(Tail(lines))

\* "Clean up whitespace" of _scrape_webpage_content
CleanText(text) ==
    PageText(Join(<<" ">>, SelectSeq(Chunks(SplitLines(text.chars)), LAMBDA chunk : chunk # <<>>)),
             text.pad)

\* text[:5000] of _scrape_webpage_content
ScrapeLimit == 5000

\* What a URL answers.  get: "error" (connection error or timeout),
\* "unparsable" (the body makes the parser raise) or "ok"; status and text (the
\* text of the page without script and style elements) and links (the anchors
\* with an href inside the header, footer, navigation and menu elements) are
\* those of the GET response, head and head_status those of a HEAD request.
Resource(get, status, text, links, head, head_status) ==
    [get |-> get, status |-> status, text |-> text, links |-> links,
     head |-> head, head_status |-> head_status]

Unreachable == Resource("error", 0, EmptyText, <<>>, "error", 0)

\* the answer of url; a URL the web does not know is unreachable
Lookup(web, url) == IF url \in DOMAIN web THEN web[url] ELSE Unreachable

\* one request of the httpx client, as recorded in calls; failed tells that the
\* request raised, stage is filled in by _refine_search_results
Request(method, url, failed) ==
    [method |-> method, url |-> url, failed |-> failed, stage |-> ""]

\* _scrape_webpage_content(client, url): the text returned and the requests made
scrape_webpage_content(web, url) ==
    LET response == Lookup(web, url)
        raised == \/ response.get # "ok"
                  \/ response.status \notin 200..299
    IN  [text |-> IF raised THEN EmptyText
                  ELSE Truncate(CleanText(response.text), ScrapeLimit),
         raised |-> FALSE,
         calls |-> <<Request("GET", url, response.get = "error")>>]

\* s.startswith(prefix)
StartsWith(s, prefix) == Len(s) >= Len(prefix) /\ SubSeq(s, 1, Len(prefix)) = prefix

\* common_paths of _discover_business_pages, in list order
common_paths ==
    <<<<"c", "o", "n", "t", "a", "c", "t">>,
      <<"c", "o", "n", "t", "a", "c", "t", "-", "u", "s">>,
      <<"a", "b", "o", "u", "t">>,
      <<"a", "b", "o", "u", "t", "-", "u", "s">>,
      <<"f", "a", "q">>,
      <<"h", "e", "l", "p">>,
      <<"s", "u", "p", "p", "o", "r", "t">>,
      <<"c", "u", "s", "t", "o", "m", "e", "r", "-", "s", "e", "r", "v", "i", "c", "e">>,
      <<"s", "t", "o", "r", "e", "-", "l", "o", "c", "a", "t", "o", "r">>,
      <<"l", "o", "c", "a", "t", "i", "o", "n", "s">>,
      <<"f", "i", "n", "d", "-", "u", "s">>,
      <<"g", "e", "t", "-", "i", "n", "-", "t", "o", "u", "c", "h">>,
      <<"r", "e", "a", "c", "h", "-", "u", "s">>,
      <<"p", "h", "o", "n", "e">>,
      <<"c", "a", "l", "l", "-", "u", "s">>>>

\* the position of the "://" that ends the scheme of url, 0 when there is none
SchemeEnd(url) ==
    LET found == {i \in 1..(Len(url) - 2) : SubSeq(url, i, i + 2) = <<":", "/", "/">>}
    IN  IF found = {} THEN 0 ELSE CHOOSE i \in found : \A j \in found : i <= j

\* the position after the network location of a url with a scheme
NetlocEnd(url) ==
    LET from == SchemeEnd(url) + 3
        stops == {i \in from..Len(url) : url[i] \in {"/", "?", "#"}}
    IN  IF stops = {} THEN Len(url) + 1 ELSE CHOOSE i \in stops : \A j \in stops : i <= j

\* urlparse raises ValueError on a network location with an unmatched bracket
UrlParseRaises(url) ==
    /\ SchemeEnd(url) # 0
    /\ LET netloc == SubSeq(url, SchemeEnd(url) + 3, NetlocEnd(url) - 1)
       IN  InSeq("[", netloc) # InSeq("]", netloc)

\* f"{parsed_url.scheme}://{parsed_url.netloc}" of urlparse(url)
UrlOrigin(url) ==
    IF SchemeEnd(url) = 0 THEN <<":", "/", "/">> ELSE SubSeq(url, 1, NetlocEnd(url) - 1)

\* the path of a url with a scheme, up to and including its last "/"; "/" when
\* the url has no path
UrlDirectory(url) ==
    LET stops == {i \in NetlocEnd(url)..Len(url) : url[i] \in {"?", "#"}}
        end == IF stops = {} THEN Len(url)
               ELSE (CHOOSE i \in stops : \A j \in stops : i <= j) - 1
        slashes == {i \in NetlocEnd(url)..end : url[i] = "/"}
    IN  IF slashes = {} THEN <<"/">>
        ELSE SubSeq(url, NetlocEnd(url), CHOOSE i \in slashes : \A j \in slashes : i >= j)

\* urljoin(base_url, href) for an href that is a url with a scheme and a
\* network location of its own (returned as it is, ValueError on an unmatched
\* bracket), an href with a scheme alone such as mailto: (returned as it is),
\* or a relative path (resolved against the directory of base_url)
urljoin(base_url, href) ==
    IF SchemeEnd(href) # 0
    THEN [raises |-> UrlParseRaises(href), url |-> href]
    ELSE IF InSeq(":", href)
    THEN [raises |-> FALSE, url |-> href]
    ELSE [raises |-> FALSE, url |-> UrlOrigin(base_url) \o UrlDirectory(base_url) \o href]

\* "Convert relative URLs to absolute" of _discover_business_pages
FullUrl(base_url, domain, href) ==
    IF StartsWith(href, <<"/">>) THEN [raises |-> FALSE, url |-> domain \o href]
    ELSE IF StartsWith(href, <<"h", "t", "t", "p">>) THEN [raises |-> FALSE, url |-> href]
    ELSE urljoin(base_url, href)

\* the loop over common_paths for one link, from path p on, with the pages
\* found and the requests made so far: found.raised tells that an exception
\* left the loop over the links
RECURSIVE CheckPaths(_, _, _, _, _, _)
CheckPaths(web, base_url, domain, link, p, found) ==
    IF p > Len(common_paths) THEN found
    ELSE LET href == Lower(link.href)
             link_text == Lower(link.text)
         IN  IF ~(Contains(href, common_paths[p]) \/ Contains(link_text, common_paths[p]))
             THEN CheckPaths(web, base_url, domain, link, p + 1, found)
             ELSE LET full_url == FullUrl(base_url, domain, href)
                  IN  IF full_url.raises THEN [found EXCEPT !.raised = TRUE]
                      ELSE IF ~(StartsWith(full_url.url, domain) /\ ~InSeq(full_url.url, found.urls))
                      THEN found
                      ELSE LET head_response == Lookup(web, full_url.url)
                               requested == [found EXCEPT !.calls =
                                                Append(@, Request("HEAD", full_url.url,
                                                                  head_response.head # "ok"))]
                           IN  IF head_response.head # "ok"
                               THEN CheckPaths(web, base_url, domain, link, p + 1, requested)
                               ELSE IF head_response.head_status = 200
                               THEN [requested EXCEPT !.urls = Append(@, full_url.url)]
                               ELSE requested

\* another loop over the links: every href is taken as it is
ProcessLinksUnverified(web, base_url, domain, links, found) ==
    [found EXCEPT !.urls = @ \o [i \in 1..Len(links) |-> links[i].href]]

\* "Process found links" of _discover_business_pages
RECURSIVE ProcessLinks(_, _, _, _, _)
ProcessLinks(web, base_url, domain, links, found) ==
    IF links = <<>> \/ found.raised THEN found
    ELSE ProcessLinks(web, base_url, domain, Tail(links),
                      CheckPaths(web, base_url, domain, Head(links), 1, found))

\* _discover_business_pages(client, base_url): urls_to_search and the requests
\* made; interrupted tells that an exception ended the loop over the links,
\* raised is FALSE: the method catches every exception
discover_business_pages(web, base_url) ==
    LET nothing == [urls |-> <<base_url>>, calls |-> <<>>, raised |-> FALSE,
                    interrupted |-> FALSE]
        response == Lookup(web, base_url)
        fetched == [nothing EXCEPT !.calls = <<Request("GET", base_url, response.get = "error")>>]
    IN  IF UrlParseRaises(base_url) THEN nothing
        ELSE IF response.get # "ok" \/ response.status # 200 THEN fetched
        ELSE LET found == ProcessLinks(web, base_url, UrlOrigin(base_url), response.links,
                                       fetched)
             IN  [found EXCEPT !.raised = FALSE, !.interrupted = found.raised]

\* the loop over pages_to_search of _extract_phone_numbers_from_website
RECURSIVE ScrapePages(_, _, _)
ScrapePages(web, pages_to_search, sofar) ==
    IF pages_to_search = <<>> THEN sofar
    ELSE LET page == scrape_webpage_content(web, Head(pages_to_search))
         IN  ScrapePages(web, Tail(pages_to_search),
                 [phone_numbers |-> sofar.phone_numbers
                                       \cup extract_phone_numbers(page.text.chars),
                  calls |-> sofar.calls \o page.calls])

\* _extract_phone_numbers_from_website(client, url): list(set(...)) as a set
extract_phone_numbers_from_website(web, url) ==
    LET pages == discover_business_pages(web, url)
    IN  ScrapePages(web, pages.urls, [phone_numbers |-> {}, calls |-> pages.calls])


\* the prefix of the reason of a classifier failure
ErrorAnalyzing == "Error analyzing webpage: "

\* another analysis of a page without content: the page is accepted
NoContentAccepted ==
    [meets_requirements |-> TRUE, reason |-> <<"Could not access webpage content">>,
     phone_numbers |-> {}]

\* the analysis of a page without content
NoContentAnalysis ==
    [meets_requirements |-> FALSE, reason |-> <<"Could not access webpage content">>,
     phone_numbers |-> {}]

\* another analysis after an exception: the error text is dropped
ErrorAnalysisWithoutText(e) ==
    [meets_requirements |-> FALSE, reason |-> <<ErrorAnalyzing>>, phone_numbers |-> {}]

\* the analysis after an exception e of the classifier step
ErrorAnalysis(e) ==
    [meets_requirements |-> FALSE, reason |-> <<ErrorAnalyzing, e>>, phone_numbers |-> {}]

\* language_processor.process_prompt(user_prompt, model, response_format) for
\* the page of url: the classifier raises (error is str(e)), or returns a text
\* that is no JSON ("invalid"), JSON that is no object ("list", "string",
\* "number", "null"), or a JSON object with the given fields
process_prompt(classifier, url) ==
    IF url \in DOMAIN classifier THEN classifier[url]
    ELSE [kind |-> "raises", error |-> "classifier unavailable"]

\* json.loads(analysis_json) followed by analysis['phone_numbers'] = []
LoadAnalysis(answer) ==
    IF answer.json = "invalid"
    THEN [raises |-> TRUE, error |-> "Expecting value: line 1 column 1 (char 0)"]
    ELSE IF answer.json = "list"
    THEN [raises |-> TRUE, error |-> "list indices must be integers or slices, not str"]
    ELSE IF answer.json # "object"
    THEN [raises |-> TRUE, error |-> "object does not support item assignment"]
    ELSE [raises |-> FALSE,
          analysis |-> Merge(answer.fields, [phone_numbers |-> {}])]

\* _check_webpage_requirements(client, url): the analysis and the requests made
check_webpage_requirements(web, classifier, url) ==
    LET scraped == scrape_webpage_content(web, url)
        answer == process_prompt(classifier, url)
        asked == Append(scraped.calls, Request("CLASSIFY", url, answer.kind = "raises"))
    IN  IF TextLen(scraped.text) = 0
        THEN [analysis |-> NoContentAnalysis, calls |-> scraped.calls, raised |-> FALSE]
        ELSE IF answer.kind = "raises"
        THEN [analysis |-> ErrorAnalysis(answer.error), calls |-> asked, raised |-> FALSE]
        ELSE LET loaded == LoadAnalysis(answer)
             IN  [analysis |-> IF loaded.raises THEN ErrorAnalysis(loaded.error)
                               ELSE loaded.analysis,
                  calls |-> asked, raised |-> FALSE]

\* r.get(first, r.get(second, ...)) on a hit that is a dict
GetFirst(fields, keys, default) ==
    LET present == {i \in 1..Len(keys) : keys[i] \in DOMAIN fields}
    IN  IF present = {} THEN default
        ELSE fields[keys[CHOOSE i \in present : \A j \in present : i <= j]]

\* "Handle different result formats and extract URLs" of
\* _refine_search_results: the hits that are dicts with a non-empty URL
RECURSIVE UrlsToCheck(_)
UrlsToCheck(organic_results) ==
    IF organic_results = <<>> THEN <<>>
    ELSE LET r == Head(organic_results)
             url == GetFirst(r.fields, <<"link", "url", "href">>, <<>>)
             title == GetFirst(r.fields, <<"title", "name">>, <<"Unknown">>)
         IN  (IF r.type = "object" /\ url # <<>> THEN <<[title |-> title, url |-> url]>>
              ELSE <<>>) \o UrlsToCheck(Tail(organic_results))

\* urls_to_check[:10] of _refine_search_results
AnalyzeCap == 10

\* another slice: every hit is analysed
AllToCheck(urls_to_check) == urls_to_check

\* urls_to_check[:10]
FirstToCheck(urls_to_check) == SubSeq(urls_to_check, 1, Min(Len(urls_to_check), AnalyzeCap))

\* the requests of one stage of _refine_search_results
Staged(requests, stage) == [i \in 1..Len(requests) |-> [requests[i] EXCEPT !.stage = stage]]

\* another first pass: the first hit that is not qualified ends the loop
RECURSIVE FirstPassUntilRejection(_, _, _, _)
FirstPassUntilRejection(web, classifier, items, sofar) ==
    IF items = <<>> THEN sofar
    ELSE LET item == Head(items)
             checked == check_webpage_requirements(web, classifier, item.url)
             qualifies == /\ "meets_requirements" \in DOMAIN checked.analysis
                          /\ checked.analysis.meets_requirements
             next == [businesses |-> sofar.businesses \o
                                        (IF qualifies
                                         THEN <<[title |-> item.title, url |-> item.url,
                                                 analysis |-> checked.analysis]>>
                                         ELSE <<>>),
                      analyses |-> Append(sofar.analyses,
                                          [url |-> item.url, analysis |-> checked.analysis]),
                      calls |-> sofar.calls \o Staged(checked.calls, "first pass")]
         IN  IF qualifies THEN FirstPassUntilRejection(web, classifier, Tail(items), next)
             ELSE next

\* "First pass" of _refine_search_results
RECURSIVE FirstPass(_, _, _, _)
FirstPass(web, classifier, items, sofar) ==
    IF items = <<>> THEN sofar
    ELSE LET item == Head(items)
             checked == check_webpage_requirements(web, classifier, item.url)
             qualifies == /\ "meets_requirements" \in DOMAIN checked.analysis
                          /\ checked.analysis.meets_requirements
         IN  FirstPass(web, classifier, Tail(items),
                 [businesses |-> sofar.businesses \o
                                    (IF qualifies
                                     THEN <<[title |-> item.title, url |-> item.url,
                                             analysis |-> checked.analysis]>>
                                     ELSE <<>>),
                  analyses |-> Append(sofar.analyses,
                                      [url |-> item.url, analysis |-> checked.analysis]),
                  calls |-> sofar.calls \o Staged(checked.calls, "first pass")])

\* another second pass: the website of every business is searched twice
SecondPassTwice(web, businesses, i, sofar) ==
    IF businesses = <<>> THEN sofar ELSE
    [sofar EXCEPT
        !.businesses = [k \in 1..Len(businesses) |->
                           [businesses[k] EXCEPT !.analysis.phone_numbers =
                               extract_phone_numbers_from_website(web, businesses[k].url).phone_numbers]],
        !.calls = @ \o Staged(extract_phone_numbers_from_website(web, businesses[1].url).calls
                                 \o extract_phone_numbers_from_website(web, businesses[1].url).calls,
                              "second pass")]

\* "Second pass" of _refine_search_results
RECURSIVE SecondPass(_, _, _, _)
SecondPass(web, businesses, i, sofar) ==
    IF i > Len(businesses) THEN sofar
    ELSE LET website == extract_phone_numbers_from_website(web, businesses[i].url)
         IN  SecondPass(web, businesses, i + 1,
                 [sofar EXCEPT
                     !.businesses[i].analysis.phone_numbers = website.phone_numbers,
                     !.calls = @ \o Staged(website.calls, "second pass")])

\* what `for r in value` does with a JSON value: the elements of a list; the
\* characters of a string and the keys of an object, which are strings and
\* no hits; a TypeError on a number, a boolean or null
Iterate(value) ==
    [raises |-> value.type \in {"number", "null"},
     items |-> IF value.type = "list" THEN value.items
               ELSE IF value.type = "string"
               THEN [i \in 1..Len(value.chars) |-> [type |-> "string", fields |-> <<>>]]
               ELSE IF value.type = "object"
               THEN [i \in 1..Cardinality(DOMAIN value.fields) |->
                        [type |-> "string", fields |-> <<>>]]
               ELSE <<>>]

\* _refine_search_results(client, search_results): the qualified businesses,
\* the analyses of the first pass in order, and the requests made; a value
\* under organic_results that cannot be iterated raises
refine_search_results(web, classifier, search_results) ==
    LET organic_results == Iterate(search_results.organic_results)
        urls_to_check == UrlsToCheck(organic_results.items)
        nothing == [businesses |-> <<>>, analyses |-> <<>>, calls |-> <<>>]
        first == FirstPass(web, classifier, FirstToCheck(urls_to_check), nothing)
        second == SecondPass(web, first.businesses, 1, first)
    IN  IF organic_results.raises
        THEN Merge(nothing, [raised |-> TRUE, error |-> "object is not iterable"])
        ELSE Merge(second, [raised |-> FALSE, error |-> ""])

\* JSON values: a list of values, a string, a number, null, or an object
JsonValue(type, items, chars, fields, zero) ==
    [type |-> type, items |-> items, chars |-> chars, fields |-> fields, zero |-> zero]

JsonList(items) == JsonValue("list", items, <<>>, <<>>, FALSE)

JsonString(chars) == JsonValue("string", <<>>, chars, <<>>, FALSE)

JsonNumber(n) == JsonValue("number", <<>>, <<>>, <<>>, n = 0)

JsonNull == JsonValue("null", <<>>, <<>>, <<>>, FALSE)

JsonObject(fields) == JsonValue("object", <<>>, <<>>, fields, FALSE)

\* bool(value)
Truthy(value) ==
    IF value.type = "null" THEN FALSE
    ELSE IF value.type = "number" THEN ~value.zero
    ELSE IF value.type = "object" THEN DOMAIN value.fields # {}
    ELSE IF value.type = "string" THEN value.chars # <<>>
    ELSE value.items # <<>>

\* _search_suppliers_on_google(client, search_query); serp is what the request
\* to the provider gives: an exception (transport, HTTP status, a body that is
\* no JSON) or the JSON value of the body.  None is JsonNull.
search_suppliers_on_google(serp) ==
    IF serp.raises THEN JsonNull
    ELSE IF serp.json.type \in {"number", "null"} THEN JsonNull
    ELSE IF serp.json.type = "object" /\ "shopping_results" \in DOMAIN serp.json.fields
    THEN serp.json.fields.shopping_results
    ELSE IF serp.json.type = "object" /\ "organic_results" \in DOMAIN serp.json.fields
    THEN serp.json.fields.organic_results
    ELSE serp.json

\* the URL of the provider
serp_api_url ==
    <<"h", "t", "t", "p", "s", ":", "/", "/", "s", "e", "r", "p", "a", "p", "i", ".", "c", "o",
      "m", "/", "s", "e", "a", "r", "c", "h">>

\* find_suppliers(search_query): the list returned or the exception raised,
\* and the requests made
find_suppliers(web, classifier, serp) ==
    LET raw_results == search_suppliers_on_google(serp)
        searched == <<Request("GET", serp_api_url, serp.raises)>>
        refined == refine_search_results(web, classifier, [organic_results |-> raw_results])
    IN  IF ~Truthy(raw_results)
        THEN [raised |-> FALSE, error |-> "", businesses |-> <<>>, analyses |-> <<>>,
              calls |-> searched]
        ELSE [raised |-> refined.raised, error |-> refined.error,
              businesses |-> refined.businesses, analyses |-> refined.analyses,
              calls |-> searched \o refined.calls]
SearchQueries == {Text_laptop, Text_buyer_kit}

Amounts == {<<>>, Text_50}

DeliveryDates == {<<>>, Text_date}

Strategies == {"direct", "catalog", "trusted", "local", "unknown"}

\* the sequences over S of length at most n
SeqsUpTo(S, n) == UNION {[1..k -> S] : k \in 0..n}

\* hits as the provider lists them: a dict with the four keys, or an entry that
\* is no dict
RawHit(title, link, snippet) ==
    [shape |-> "dict", title |-> title, link |-> link, snippet |-> snippet, source |-> ""]

MalformedHit == [shape |-> "not_a_dict"]

RawHits ==
    {RawHit(Title_acme, Link_a, Snippet_phone), RawHit(Title_best, Link_b, Snippet_email),
     MalformedHit}

ListOf(items) == [is_list |-> TRUE, items |-> items]

NotAList == [is_list |-> FALSE, items |-> <<>>]

OrganicAnswer(items) == [kind |-> "dict", data |-> [organic_results |-> ListOf(items)]]

ProviderException == [kind |-> "exception"]

\* what GoogleSearch(params).get_dict() can do: raise, return something that is
\* no dict, return an error dict without results, return results that are no
\* list, or return a list of hits under organic_results or news_results
ProviderOutcomes ==
    {ProviderException,
     [kind |-> "not_a_dict"],
     [kind |-> "dict", data |-> [error |-> NotAList]],
     [kind |-> "dict", data |-> [organic_results |-> NotAList]],
     [kind |-> "dict", data |-> [news_results |-> ListOf(<<RawHit(Title_acme, Link_a, Snippet_phone)>>)]]}
    \cup {OrganicAnswer(items) : items \in SeqsUpTo(RawHits, MaxHits)}

\* a few provider answers for the operations that make several calls
CoarseOutcomes ==
    {ProviderException, OrganicAnswer(<<>>),
     OrganicAnswer(<<RawHit(Title_acme, Link_a, Snippet_phone)>>)}

EmptyAnswer == OrganicAnswer(<<>>)

HitAnswer(snippet) == OrganicAnswer(<<RawHit(Title_acme, Link_a, snippet)>>)

\* the pairs (primary, fallback) of provider answers one supplier search of
\* search_suppliers can meet: a hit with a phone at once, errors only, an
\* empty answer and then a hit with an email address
QueryAnswers ==
    {<<HitAnswer(Snippet_phone), EmptyAnswer>>,
     <<ProviderException, ProviderException>>,
     <<EmptyAnswer, HitAnswer(Snippet_email)>>}

RequestMaxResults == {1, MaxSearchResults + 1}

SearchTypes == {"web", "news", "organic"}

\* keyword arguments callers pass to search()
SearchKwargs ==
    {[max_results |-> m] : m \in RequestMaxResults}
    \cup {[max_results |-> 1, location |-> l] : l \in {Loc_Berlin_Germany, <<>>}}
    \cup {[country_code |-> "de", language |-> "de"],
          [max_results |-> 1, site |-> "all.biz", filetype |-> "pdf"]}

\* ProductData objects callers pass
Products ==
    {ProductData([product_name |-> Text_laptop, amount |-> Text_50, location |-> l]) :
        l \in {Loc_Berlin_Germany, Loc_Almaty, <<>>}}

\* keyword arguments callers pass to SerpService.search_suppliers: the tests
\* pass max_results, the orchestrator also search_type and location
SupplierKwargs ==
    {[max_results |-> 1]}
    \cup {[max_results |-> 1, search_type |-> "web", location |-> l] : l \in TargetLocations}

\* the hits _analyze_supplier_results is run on
AnalyzeHits ==
    {RawHit(Title_acme, Link_a, Snippet_phone),
     RawHit(Title_best, Link_a, Snippet_email),
     RawHit(Title_acme, <<>>, Snippet_short_phone),
     RawHit(Title_acme, <<>>, Snippet_phone_email),
     RawHit(Title_best, Link_b, Snippet_plain)}

\* documents of the products collection
ProductDocument ==
    [product_name |-> Text_laptop, amount |-> Text_50, date_time |-> Text_date,
     location |-> Loc_Berlin_Germany]

\* what the product lookup can meet
DbOutcomes ==
    {[kind |-> "no_database"], [kind |-> "missing"], [kind |-> "found", doc |-> ProductDocument]}

SessionOutcomes == {"inserted", "error"}

\* ProductSearchRequest objects (the model declares product_id, max_results and
\* search_type)
ProductSearchRequests ==
    {[product_id |-> "p1", max_results |-> m, search_type |-> "web"] : m \in RequestMaxResults}

\* SupplierSearchRequest objects
SupplierSearchRequests ==
    {r \in [search_query : {Text_laptop},
            product_id : {"", "p1"},
            product_data : {<<>>, <<ProductData([product_name |-> Text_laptop,
                                                 location |-> Loc_Berlin_Germany])>>},
            amount : Amounts,
            search_strategy : {"direct", "unknown"},
            max_results : {1},
            search_type : {"web"},
            target_location : {Loc_Almaty},
            delivery_date : DeliveryDates] :
        ~(r.product_id # "" /\ r.product_data # <<>>)}

\* the orders get_search_languages can give for the country of a product
LanguageChoices(product) ==
    get_search_languages(detect_country_and_language(product.location).country_code)

\* the inputs of page discovery
BaseUrl_acme == <<"h", "t", "t", "p", "s", ":", "/", "/", "a", "c", "m", "e", ".", "d", "e">>

BaseUrl_shop == <<"h", "t", "t", "p", "s", ":", "/", "/", "a", "c", "m", "e", ".", "d", "e", "/", "s", "h", "o", "p", "/", "i", "n", "d", "e", "x", ".", "h", "t", "m", "l">>

\* the base page of the discoveries
DiscoveryBases == {BaseUrl_shop}

Anchor(href, text) == [href |-> href, text |-> text]

Anchor_contact == Anchor(<<"/", "c", "o", "n", "t", "a", "c", "t">>,
    <<"C", "o", "n", "t", "a", "c", "t">>)

Anchor_evil == Anchor(<<"h", "t", "t", "p", "s", ":", "/", "/", "a", "c", "m", "e", ".", "d", "e", ".", "e", "v", "i", "l", ".", "c", "o", "m", "/", "c", "o", "n", "t", "a", "c", "t">>,
    <<"C", "o", "n", "t", "a", "c", "t", " ", "u", "s">>)

Anchor_about == Anchor(<<"a", "b", "o", "u", "t", ".", "h", "t", "m", "l">>,
    <<"A", "b", "o", "u", "t">>)

Anchor_bad == Anchor(<<"x", ":", "/", "/", "[", "c", "o", "n", "t", "a", "c", "t">>,
    <<"C", "o", "n", "t", "a", "c", "t">>)

Anchor_contact_us == Anchor(<<"/", "C", "o", "n", "t", "a", "c", "t", "-", "U", "s">>,
    <<"G", "e", "t", " ", "i", "n", " ", "t", "o", "u", "c", "h">>)

Anchor_mail == Anchor(<<"m", "a", "i", "l", "t", "o", ":", "c", "o", "n", "t", "a", "c", "t", "@", "a", "c", "m", "e", ".", "d", "e">>,
    <<"M", "a", "i", "l">>)

\* the anchors a base page is given
Anchors == {Anchor_evil, Anchor_about, Anchor_bad, Anchor_contact_us}

\* a bound on the anchors of a page
MaxLinks == 2

\* what the HEAD requests of a discovery are answered: 200 for every page, 404
\* for every page, or an exception for the page of the first anchor and 200
\* for the others
HeadPolicies == {"found", "missing", "first_failing"}

\* what the GET of the base page is answered: an exception, a 404, or a page
\* with anchors
BaseAnswers ==
    {Unreachable, Resource("ok", 404, EmptyText, <<>>, "ok", 404)}
    \cup {Resource("ok", 200, PageText(PhoneText_tollfree, 0), links, "ok", 200) :
              links \in SeqsUpTo(Anchors, MaxLinks)}

\* the page an anchor leads to, as the discovery resolves it
AnchorTarget(base_url, link) == FullUrl(base_url, UrlOrigin(base_url), Lower(link.href)).url

\* the answer of a page other than the base page
PolicyAnswer(policy, first) ==
    IF policy = "first_failing" /\ first
    THEN Resource("error", 0, EmptyText, <<>>, "error", 0)
    ELSE IF policy = "missing" THEN Resource("ok", 404, EmptyText, <<>>, "ok", 404)
    ELSE Resource("ok", 200, PageText(PhoneText_repeated, 0), <<>>, "ok", 200)

\* the web of a discovery: the base page and the pages its anchors lead to
DiscoveryWeb(base_url, answer, policy) ==
    LET links == [i \in 1..Len(answer.links) |-> answer.links[i]]
        targets == {AnchorTarget(base_url, links[i]) :
                       i \in {j \in 1..Len(links) : ~FullUrl(base_url, UrlOrigin(base_url),
                                                              Lower(links[j].href)).raises}}
    IN  [url \in targets \cup {base_url} |->
            IF url = base_url THEN answer
            ELSE PolicyAnswer(policy, url = AnchorTarget(base_url, links[1]))]

\* the inputs of the page fetch
Text_messy == <<" ", " ", "A", "c", "m", "e", " ", " ", "G", "m", "b", "H", " ", "\n", "\n", " ", "c", "a", "l", "l", " ", " ", " ", "u", "s", " ", "\n", " ", "0", "3", "0", "1", "2", "3", "4", "5", "6", "7">>

Text_blank == <<" ", " ", "\n", " ">>

\* a bound on the characters of a page beyond ScrapeLimit
MaxExcess == 1

ScrapeTexts ==
    {EmptyText, PageText(Text_blank, 0), PageText(Text_messy, 0),
     PageText(PhoneText_tollfree, 0)}
    \cup {PageText(PhoneText_nine, ScrapeLimit - Len(PhoneText_nine) + excess) :
              excess \in (0 - 1)..MaxExcess}
    \cup {PageText(<<>>, ScrapeLimit + excess) : excess \in 0..MaxExcess}

Page(text, links) == Resource("ok", 200, text, links, "ok", 200)

ScrapeAnswers ==
    {Unreachable,
     Resource("ok", 404, PageText(Text_messy, 0), <<>>, "ok", 404),
     Resource("ok", 500, PageText(Text_messy, 0), <<>>, "ok", 500),
     Resource("unparsable", 200, PageText(Text_messy, 0), <<>>, "ok", 200)}
    \cup {Page(text, <<>>) : text \in ScrapeTexts}

\* the inputs of the classifier step
Reason_seller == <<"s", "e", "l", "l", "s", " ", "d", "i", "r", "e", "c", "t", "l", "y">>

ClassifierRaises(error) == [kind |-> "raises", error |-> error, json |-> "", fields |-> <<>>]

ClassifierText(json) == [kind |-> "text", error |-> "", json |-> json, fields |-> <<>>]

ClassifierObject(fields) == [kind |-> "text", error |-> "", json |-> "object", fields |-> fields]

ClassifierAnswers ==
    {ClassifierRaises("'LanguageProcessor' object has no attribute 'process_prompt'"),
     ClassifierRaises("Connection error."),
     ClassifierText("invalid"), ClassifierText("list"), ClassifierText("string"),
     ClassifierText("number"), ClassifierText("null"),
     ClassifierObject([meets_requirements |-> TRUE, reason |-> Reason_seller]),
     ClassifierObject([meets_requirements |-> FALSE, reason |-> Reason_seller]),
     ClassifierObject([reason |-> Reason_seller])}

CheckAnswers ==
    {Unreachable, Resource("ok", 404, PageText(Text_messy, 0), <<>>, "ok", 404),
     Page(PageText(Text_blank, 0), <<>>), Page(PageText(Text_messy, 0), <<>>)}

\* the inputs of find_suppliers
\* a bound on the hits of a provider response
MaxRefineHits == 12

SiteLetters == <<"a", "b", "c", "d", "e", "f", "g", "h", "i", "j", "k", "l", "m", "n", "o", "p", "q", "r", "s", "t", "u", "v", "w", "x", "y", "z">>

\* the home page of the j-th site
SiteUrl(j) == <<"h", "t", "t", "p", "s", ":", "/", "/", "s">> \o <<SiteLetters[j]>> \o <<".", "d", "e">>

Sites == 1..(MaxRefineHits + 1)

\* what the sites of a request are like, site after site, the pattern repeated:
\* the home page cannot be reached, answers 500, or holds whitespace only; the
\* classifier raises on it, answers with text that is no JSON or with a JSON
\* list, rejects it, gives no verdict, or qualifies it
SitePatterns ==
    {<<"qualified">>, <<"unreachable", "qualified", "http_error", "blank">>,
     <<"raises", "qualified", "invalid", "unreachable", "qualified">>, <<"not_object", "rejected", "no_verdict">>}

KindOf(pattern, j) == pattern[((j - 1) % Len(pattern)) + 1]

SitePage(kind) ==
    IF kind = "unreachable" THEN Unreachable
    ELSE IF kind = "http_error" THEN Resource("ok", 500, PageText(Text_messy, 0), <<>>, "ok", 500)
    ELSE IF kind = "blank" THEN Page(PageText(Text_blank, 0), <<>>)
    ELSE Page(PageText(Text_messy, 0), <<Anchor_contact, Anchor_mail>>)

SiteVerdict(kind) ==
    IF kind = "raises" THEN ClassifierRaises("Connection error.")
    ELSE IF kind = "invalid" THEN ClassifierText("invalid")
    ELSE IF kind = "not_object" THEN ClassifierText("list")
    ELSE IF kind = "rejected"
    THEN ClassifierObject([meets_requirements |-> FALSE, reason |-> Reason_seller])
    ELSE IF kind = "no_verdict" THEN ClassifierObject([reason |-> Reason_seller])
    ELSE ClassifierObject([meets_requirements |-> TRUE, reason |-> Reason_seller])

\* the web of a request: the home page of every site and its contact page
SiteWeb(pattern) ==
    [url \in {SiteUrl(j) : j \in Sites} \cup {SiteUrl(j) \o Anchor_contact.href : j \in Sites} |->
        IF \E j \in Sites : url = SiteUrl(j)
        THEN SitePage(KindOf(pattern, CHOOSE j \in Sites : url = SiteUrl(j)))
        ELSE Page(PageText(PhoneText_tollfree, 0), <<>>)]

SiteClassifier(pattern) ==
    [url \in {SiteUrl(j) : j \in Sites} |->
        SiteVerdict(KindOf(pattern, CHOOSE j \in Sites : url = SiteUrl(j)))]

\* the hits of a response, hit after hit, the pattern repeated: a hit with
\* title and link for a site of its own, a hit with name and url, a hit for the
\* site of the first hit, a hit without a URL, an entry that is a string
HitPatterns ==
    {<<"link">>, <<"link", "first">>, <<"nourl", "text", "url">>}

SerpHit(kind, j) ==
    IF kind = "link" THEN JsonObject([title |-> Title_acme, link |-> SiteUrl(j)])
    ELSE IF kind = "url" THEN JsonObject([name |-> Title_best, url |-> SiteUrl(j)])
    ELSE IF kind = "first" THEN JsonObject([title |-> Title_best, link |-> SiteUrl(1)])
    ELSE IF kind = "nourl" THEN JsonObject([title |-> Title_acme])
    ELSE JsonString(Title_acme)

SerpHits(n, pattern) == [j \in 1..n |-> SerpHit(KindOf(pattern, j), j)]

\* the numbers of hits of a response: few, and around AnalyzeCap
HitCounts == 0..3 \cup (MaxRefineHits - 2)..MaxRefineHits

SerpAnswer(json) == [raises |-> FALSE, json |-> json]

\* the responses in which the provider lists hits: under shopping_results,
\* under organic_results, or as a bare list
SerpListings ==
    UNION {{SerpAnswer(JsonObject([shopping_results |-> JsonList(SerpHits(n, pattern))])),
            SerpAnswer(JsonObject([organic_results |-> JsonList(SerpHits(n, pattern))])),
            SerpAnswer(JsonList(SerpHits(n, pattern)))} :
              n \in HitCounts, pattern \in HitPatterns}

\* the other outcomes of the provider request: an exception, and bodies of
\* other shapes
SerpOddities ==
    {[raises |-> TRUE, json |-> JsonNull],
     SerpAnswer(JsonNull), SerpAnswer(JsonNumber(1)), SerpAnswer(JsonString(Title_acme)),
     SerpAnswer(JsonObject([error |-> JsonString(Title_acme)])),
     SerpAnswer(JsonObject([shopping_results |-> JsonNumber(1)])),
     SerpAnswer(JsonObject([shopping_results |-> JsonNumber(0)])),
     SerpAnswer(JsonObject([shopping_results |-> JsonString(Title_acme)])),
     SerpAnswer(JsonObject([organic_results |-> JsonNull])),
     SerpAnswer(JsonObject([organic_results |-> JsonObject([error |-> JsonNull])]))}

SerpResponses == SerpListings \cup SerpOddities

\* LocationService.is_cis_country(country_code)
is_cis_country(country_code) == country_code \in CisCountries

\* the regions of get_trusted_sources_by_region after the CIS, in the order of
\* its elif chain
EastAsiaCountries == {"cn", "jp", "kr"}

NorthAmericaCountries == {"us", "ca"}

EuropeCountries == {"de", "fr", "it", "es", "gb"}

\* the list of the final else
TrustedGlobal == <<"alibaba.com", "globalsources.com", "made-in-china.com">>

\* the final else returns nothing
TrustedSourcesWithoutDefault(country_code) ==
    IF is_cis_country(country_code) THEN TrustedGlobal \o <<"indiamart.com">>
    ELSE IF country_code \in EastAsiaCountries THEN TrustedGlobal \o <<"tradekey.com">>
    ELSE IF country_code \in NorthAmericaCountries THEN TrustedGlobal \o <<"exportersindia.com">>
    ELSE IF country_code \in EuropeCountries THEN TrustedGlobal \o <<"tradekey.com">>
    ELSE <<>>

\* LocationService.get_trusted_sources_by_region(country_code)
get_trusted_sources_by_region(country_code) ==
    IF is_cis_country(country_code) THEN TrustedGlobal \o <<"indiamart.com">>
    ELSE IF country_code \in EastAsiaCountries THEN TrustedGlobal \o <<"tradekey.com">>
    ELSE IF country_code \in NorthAmericaCountries THEN TrustedGlobal \o <<"exportersindia.com">>
    ELSE IF country_code \in EuropeCountries THEN TrustedGlobal \o <<"tradekey.com">>
    ELSE TrustedGlobal

\* country codes: those of test_regional_sources, the other codes of the
\* regions, codes of the country table outside every region, and texts that are
\* no country code
CountryCodes ==
    CisCountries \cup EastAsiaCountries \cup NorthAmericaCountries \cup EuropeCountries
        \cup {"br", "in", "tr", "KZ", ""}

\* the kwargs batch_search is called with: a cap on the results, or
\* max_results=None, written as the key max_results_none
BatchKwargs == {[max_results |-> 2], [max_results_none |-> TRUE]}

\* the longest query list batch_search is called with
MaxBatch == 2

\* the query lists batch_search is called with: no query, one, and so on up
\* to MaxBatch queries
BatchQueries ==
    {[i \in 1..n |-> IF i % 2 = 1 THEN Text_laptop ELSE Text_buyer_kit] : n \in 0..MaxBatch}

\* what the provider answers to a search of a batch: an exception, or one hit
BatchOutcomes == {ProviderException, HitAnswer(Snippet_phone)}

\* one task of batch_search, self.search(query, search_type, **kwargs): with
\* max_results=None min(None, self.max_results) raises TypeError before the
\* try of search() and before any request; in every other case search() returns
\* a SearchResponse
search_task(query, search_type, kwargs, outcome) ==
    IF "max_results_none" \in DOMAIN kwargs
    THEN [is_response |-> FALSE, response |-> SearchResponse(<<>>, <<>>), params |-> <<>>]
    ELSE LET done == search(query, search_type, kwargs, outcome)
         IN  [is_response |-> TRUE, response |-> done.response, params |-> <<done.params>>]

\* another loop over the gathered results: the exceptions are left out
ValidResultsWithoutFailed(results) ==
    LET responses == SelectSeq(results, LAMBDA result : result[1].is_response)
    IN  [i \in 1..Len(responses) |-> responses[i][1].response]

\* the loop of batch_search over the results of asyncio.gather: a
\* SearchResponse is kept, an exception is replaced by the empty SearchResponse
\* with query ""
valid_results(results) ==
    [i \in 1..Len(results) |->
        IF results[i][1].is_response THEN results[i][1].response
        ELSE SearchResponse(<<>>, <<>>)]

(***************************************************************************)
(* The state machine.                                                      *)
(***************************************************************************)
VARIABLES
    pc,               \* "ready" before the call, "done" after it
    op,               \* the operation called
    input,            \* its arguments and the answers of its environment
    output,           \* its result
    calls             \* the params of the provider requests it issued, in order

vars == <<pc, op, input, output, calls>>

Init ==
    /\ pc = "ready"
    /\ op = "none"
    /\ input = <<>>
    /\ output = <<>>
    /\ calls = <<>>

\* Each action is one call: its inputs are drawn, the locals of the method are
\* bound in the order the method assigns them, and the call's arguments,
\* result and provider requests are recorded.

\* LocationService.detect_country_and_language(location)
DetectLocation ==
    \E location \in Locations :
      \E country_info \in {detect_country_and_language(location)} :
        /\ pc = "ready"
        /\ pc' = "done"
        /\ op' = "detect_country_and_language"
        /\ input' = [location |-> location]
        /\ output' = country_info
        /\ calls' = <<>>

\* SearchOrchestrator._generate_supplier_queries(search_query, amount,
\* location_params, strategy, date_and_time)
GenerateSupplierQueries ==
    \E search_query \in SearchQueries, amount \in Amounts, location \in TargetLocations,
       strategy \in Strategies, date_and_time \in DeliveryDates :
      \E queries \in {generate_supplier_queries(search_query, amount,
                           [location |-> location], strategy, date_and_time)} :
        /\ pc = "ready"
        /\ pc' = "done"
        /\ op' = "generate_supplier_queries"
        /\ input' = [search_query |-> search_query, amount |-> amount,
                     location |-> location, strategy |-> strategy,
                     date_and_time |-> date_and_time]
        /\ output' = [queries |-> queries]
        /\ calls' = <<>>

\* SearchOrchestrator._analyze_supplier_results(search_results, search_query,
\* location_params) on two search responses
AnalyzeSupplierResults ==
    \E hits \in SeqsUpTo(AnalyzeHits, MaxAnalyzeHits) :
      \E cut \in 0..Len(hits) :
        \E responses \in {<<SearchResponse(Text_laptop, ParseHits(SubSeq(hits, 1, cut), 1)),
                             SearchResponse(Text_laptop,
                                            ParseHits(SubSeq(hits, cut + 1, Len(hits)), 1))>>},
           params \in {[country_code |-> "de", language |-> "de"]} :
          \E candidates \in {Candidates(responses, params)},
             suppliers \in {analyze_supplier_results(responses, params)} :
            /\ pc = "ready"
            /\ pc' = "done"
            /\ op' = "analyze_supplier_results"
            /\ input' = [search_results |-> responses, location_params |-> params]
            /\ output' = [candidates |-> candidates, suppliers |-> suppliers]
            /\ calls' = <<>>

\* SerpService.search(query, search_type, **kwargs)
SerpSearch ==
    \E search_type \in SearchTypes, kwargs \in SearchKwargs, outcome \in ProviderOutcomes :
      \E done \in {search(Text_laptop, search_type, kwargs, outcome)} :
        /\ pc = "ready"
        /\ pc' = "done"
        /\ op' = "search"
        /\ input' = [query |-> Text_laptop, search_type |-> search_type, kwargs |-> kwargs,
                     outcome |-> outcome]
        /\ output' = done.response
        /\ calls' = <<done.params>>

\* SerpService.search_with_fallback(query, search_type, **kwargs); answers are
\* the provider's answers to the calls made
SearchWithFallback ==
    \E kwargs \in {[max_results |-> m] : m \in RequestMaxResults},
       primary \in ProviderOutcomes, fallback \in CoarseOutcomes :
      \E done \in {search_with_fallback(Text_laptop, "web", kwargs, primary, fallback)} :
        /\ pc = "ready"
        /\ pc' = "done"
        /\ op' = "search_with_fallback"
        /\ input' = [query |-> Text_laptop, search_type |-> "web", kwargs |-> kwargs,
                     answers |-> SubSeq(<<primary, fallback>>, 1, Len(done.calls))]
        /\ output' = done.response
        /\ calls' = done.calls

\* SerpService.search_suppliers(query, product_data, **kwargs)
SerpSearchSuppliers ==
    \E product \in {<<>>} \cup {<<p>> : p \in Products}, kwargs \in SupplierKwargs,
       primary \in CoarseOutcomes, fallback \in CoarseOutcomes :
      \E done \in {serp_search_suppliers(Text_laptop, product, kwargs, primary, fallback)} :
        /\ pc = "ready"
        /\ pc' = "done"
        /\ op' = "serp_search_suppliers"
        /\ input' = [query |-> Text_laptop, product_data |-> product, kwargs |-> kwargs,
                     answers |-> SubSeq(<<primary, fallback>>, 1, Len(done.calls))]
        /\ output' = done.response
        /\ calls' = done.calls

\* SerpService.multilingual_search(query, product_data, **kwargs)
MultilingualSearch ==
    \E product \in Products, max_results \in RequestMaxResults :
      \E languages \in LanguageChoices(product) :
        \E outcomes \in [1..Len(languages) -> CoarseOutcomes] :
          \E done \in {multilingual_search(Text_laptop, product,
                            [max_results |-> max_results], languages, outcomes)} :
            /\ pc = "ready"
            /\ pc' = "done"
            /\ op' = "multilingual_search"
            /\ input' = [query |-> Text_laptop, product_data |-> product,
                         max_results |-> max_results, languages |-> languages,
                         outcomes |-> outcomes]
            /\ output' = done.results
            /\ calls' = done.calls

\* POST /search/products/{product_id} and POST /supplier-search/search-from-db/
\* {product_id}: search_by_product_data behind the endpoint's exception mapping
ProductSearch ==
    \E request \in ProductSearchRequests, db \in DbOutcomes, session \in SessionOutcomes :
      \E languages \in LanguageChoices(ProductData(ProductDocument)) :
        \E outcomes \in [1..Len(languages) -> CoarseOutcomes] :
          \E done \in {search_by_product_data(request, db, languages, outcomes, session)} :
            \E http \in {product_search_endpoint(done)} :
              /\ pc = "ready"
              /\ pc' = "done"
              /\ op' = "search_by_product_data"
              /\ input' = [request |-> request, db |-> db]
              /\ output' = [status |-> done.status, error |-> done.error, http |-> http,
                            search_queries |-> done.search_queries, saved |-> done.saved,
                            suppliers |-> done.suppliers]
              /\ calls' = done.calls

\* POST /search/suppliers and POST /supplier-search/search:
\* SearchOrchestrator.search_suppliers(request) behind the endpoint's exception
\* mapping, for the requests that generate at most MaxQueries queries.  db,
\* languages, answers and session are the answers of the product lookup, of
\* get_search_languages, of the provider and of the session insert.
SearchSuppliers ==
    \E request \in SupplierSearchRequests, session \in SessionOutcomes :
      \E db \in (IF request.product_id = "" THEN {[kind |-> "missing"]} ELSE DbOutcomes) :
        \E product_data \in {RequestProduct(request, db)} :
          \E languages \in (IF product_data = <<>> THEN {<<>>}
                            ELSE LanguageChoices(product_data[1])) :
            \E location_params \in {RequestLocationParams(request, product_data, languages)} :
              \E search_queries \in
                    {q \in {generate_supplier_queries(request.search_query, request.amount,
                                location_params, request.search_strategy,
                                request.delivery_date)} : Len(q) <= MaxQueries} :
                \E answers \in [1..Len(search_queries) -> QueryAnswers] :
                  \E searched \in {SearchEachQuery(search_queries, product_data, request,
                                                    answers, 1)} :
                    \E supplier_results \in {analyze_supplier_results(
                                                 searched.search_results, location_params)},
                       session_id \in {save_search_session(session)},
                       \* SupplierSearchResponse(..., location_info=location_params)
                       done \in {IF ValidLocationInfo(location_params)
                                 THEN [status |-> "returned", error |-> ""]
                                 ELSE [status |-> "raised", error |-> "ValidationError"]} :
                      \E http \in {supplier_search_endpoint(done)} :
                        /\ pc = "ready"
                        /\ pc' = "done"
                        /\ op' = "search_suppliers"
                        /\ input' = [request |-> request, db |-> db, answers |-> answers]
                        /\ output' = [status |-> done.status, error |-> done.error,
                                      http |-> http,
                                      queries_used |-> search_queries,
                                      search_results |-> searched.search_results,
                                      location_info |-> location_params,
                                      saved |-> session_id # "",
                                      suppliers |-> IF done.status = "returned"
                                                    THEN supplier_results ELSE <<>>]
                        /\ calls' = searched.calls

\* SupplierSearchService._extract_phone_numbers(webpage_content), called twice
\* on the same text
ExtractPhoneNumbers ==
    \E text \in PhoneTexts :
      \E analysis \in {PhoneMemo[text]} :
        /\ pc = "ready"
        /\ pc' = "done"
        /\ op' = "extract_phone_numbers"
        /\ input' = [text |-> text]
        /\ output' = [phone_numbers |-> analysis.phone_numbers,
                      again |-> analysis.phone_numbers]
        /\ calls' = <<>>

\* SearchOrchestrator._extract_contact_info(snippet), then
\* _has_phone_number(contact_info, snippet), as _extract_supplier_info calls them
ExtractContactInfo ==
    \E snippet \in PhoneTexts :
      \E analysis \in {PhoneMemo[snippet]} :
        /\ pc = "ready"
        /\ pc' = "done"
        /\ op' = "extract_contact_info"
        /\ input' = [text |-> snippet]
        /\ output' = [all_phones |-> analysis.all_phones,
                      contact_info |-> analysis.contact_info,
                      matches |-> analysis.matches,
                      has_phone |-> analysis.has_phone]
        /\ calls' = <<>>

\* SupplierSearchService._discover_business_pages(client, base_url)
DiscoverBusinessPages ==
    \E base_url \in DiscoveryBases, answer \in BaseAnswers, policy \in HeadPolicies :
      \E pages \in {discover_business_pages(DiscoveryWeb(base_url, answer, policy), base_url)} :
        /\ pc = "ready"
        /\ pc' = "done"
        /\ op' = "discover_business_pages"
        /\ input' = [base_url |-> base_url, answer |-> answer, policy |-> policy]
        /\ output' = [urls |-> pages.urls, raised |-> pages.raised,
                      interrupted |-> pages.interrupted]
        /\ calls' = pages.calls

\* SupplierSearchService._scrape_webpage_content(client, url)
ScrapeWebpageContent ==
    \E url \in {BaseUrl_acme}, answer \in ScrapeAnswers :
      \E scraped \in {scrape_webpage_content([u \in {url} |-> answer], url)} :
        /\ pc = "ready"
        /\ pc' = "done"
        /\ op' = "scrape_webpage_content"
        /\ input' = [url |-> url, answer |-> answer]
        /\ output' = [text |-> scraped.text, raised |-> scraped.raised]
        /\ calls' = scraped.calls

\* SupplierSearchService._check_webpage_requirements(client, url)
CheckWebpageRequirements ==
    \E url \in {BaseUrl_acme}, answer \in CheckAnswers, verdict \in ClassifierAnswers :
      \E checked \in {check_webpage_requirements([u \in {url} |-> answer],
                                                 [u \in {url} |-> verdict], url)} :
        /\ pc = "ready"
        /\ pc' = "done"
        /\ op' = "check_webpage_requirements"
        /\ input' = [url |-> url, answer |-> answer, verdict |-> verdict]
        /\ output' = [analysis |-> checked.analysis, raised |-> checked.raised]
        /\ calls' = checked.calls

\* SupplierSearchService.find_suppliers(search_query)
FindSuppliers ==
    \E serp \in SerpResponses, sites \in SitePatterns :
      \E found \in {find_suppliers(SiteWeb(sites), SiteClassifier(sites), serp)} :
        /\ pc = "ready"
        /\ pc' = "done"
        /\ op' = "find_suppliers"
        /\ input' = [serp |-> serp, sites |-> sites]
        /\ output' = [raised |-> found.raised, error |-> found.error,
                      businesses |-> found.businesses, analyses |-> found.analyses]
        /\ calls' = found.calls

\* LocationService.get_local_sources(country_code),
\* get_trusted_sources_by_region(country_code) and is_cis_country(country_code),
\* as test_regional_sources calls them
RegionalSources ==
    \E country_code \in CountryCodes :
      \E local \in {get_local_sources(country_code)} :
        /\ pc = "ready"
        /\ pc' = "done"
        /\ op' = "regional_sources"
        /\ input' = [country_code |-> country_code]
        /\ output' = [local_sources |-> local,
                      trusted_sources |-> get_trusted_sources_by_region(country_code),
                      is_cis |-> is_cis_country(country_code)]
        /\ calls' = <<>>

\* SerpService.batch_search(queries, "web", **kwargs) creates one task per
\* query and awaits asyncio.gather(*tasks, return_exceptions=True); results
\* holds, for every task, a list with its result once the task has completed
BatchSearchStart ==
    \E queries \in BatchQueries, kwargs \in BatchKwargs :
      \E outcomes \in [1..Len(queries) -> BatchOutcomes] :
        /\ pc = "ready"
        /\ pc' = "gathering"
        /\ op' = "batch_search"
        /\ input' = [queries |-> queries, kwargs |-> kwargs, outcomes |-> outcomes]
        /\ output' = [results |-> [i \in 1..Len(queries) |-> <<>>], responses |-> <<>>]
        /\ calls' = <<>>

\* one of the running searches completes, in any order: gather stores its
\* result, or the exception it raised, at the position of its task; calls
\* lists the requests in the order of their completion
BatchSearchComplete ==
    \E i \in 1..MaxBatch :
        /\ pc = "gathering"
        /\ i \in DOMAIN output.results
        /\ output.results[i] = <<>>
        /\ pc' = pc
        /\ op' = op
        /\ input' = input
        /\ output' = [output EXCEPT !.results[i] =
                         <<[is_response |-> search_task(input.queries[i], "web", input.kwargs,
                                                        input.outcomes[i]).is_response,
                            response |-> search_task(input.queries[i], "web", input.kwargs,
                                                     input.outcomes[i]).response]>>]
        /\ calls' = calls \o search_task(input.queries[i], "web", input.kwargs,
                                         input.outcomes[i]).params

\* every search has completed: gather returns and batch_search builds
\* valid_results
BatchSearchReturn ==
    /\ pc = "gathering"
    /\ \A i \in DOMAIN output.results : output.results[i] # <<>>
    /\ pc' = "done"
    /\ op' = op
    /\ input' = input
    /\ output' = [output EXCEPT !.responses = valid_results(output.results)]
    /\ calls' = calls

Next ==
    \/ DetectLocation
    \/ GenerateSupplierQueries
    \/ AnalyzeSupplierResults
    \/ SerpSearch
    \/ SearchWithFallback
    \/ SerpSearchSuppliers
    \/ MultilingualSearch
    \/ ProductSearch
    \/ SearchSuppliers
    \/ ExtractPhoneNumbers
    \/ ExtractContactInfo
    \/ DiscoverBusinessPages
    \/ ScrapeWebpageContent
    \/ CheckWebpageRequirements
    \/ FindSuppliers
    \/ RegionalSources
    \/ BatchSearchStart
    \/ BatchSearchComplete
    \/ BatchSearchReturn

Spec == Init /\ [][Next]_vars

(***************************************************************************)
(* The claims of the specification, as properties of Spec.                 *)
(***************************************************************************)

\* C1: for every well-formed SupplierSearchRequest and every combination of
\* provider errors, empty result sets and hits without contact data,
\* SearchOrchestrator.search_suppliers returns a response (HTTP 200) whose
\* supplier list is a list; it never raises.
C1_SearchSuppliersAlwaysReturns ==
    op = "search_suppliers" =>
        /\ output.status = "returned"
        /\ output.http = 200
        /\ DOMAIN output.suppliers = 1..Len(output.suppliers)

\* the dedup key as the specification words it: the website if non-empty,
\* else the name
C2_Key(supplier) == IF supplier.website # <<>> THEN supplier.website ELSE supplier.name

\* the first candidate, in input order, that carries the key
C2_FirstWithKey(candidates, key) ==
    candidates[CHOOSE i \in 1..Len(candidates) :
                  /\ C2_Key(candidates[i]) = key
                  /\ \A j \in 1..(i - 1) : C2_Key(candidates[j]) # key]

\* C2: in the list _analyze_supplier_results returns (hence in every supplier
\* search response) no two suppliers share a dedup key, every key of a
\* candidate is kept, and the record kept for a key is the first candidate
\* that carries it, in input order.
C2_FirstSeenSurvives ==
    /\ op \in {"analyze_supplier_results", "search_suppliers"} =>
          \A i, j \in 1..Len(output.suppliers) :
              i # j => C2_Key(output.suppliers[i]) # C2_Key(output.suppliers[j])
    /\ op = "analyze_supplier_results" =>
          /\ \A i \in 1..Len(output.candidates) :
                \E j \in 1..Len(output.suppliers) :
                    C2_Key(output.suppliers[j]) = C2_Key(output.candidates[i])
          /\ \A j \in 1..Len(output.suppliers) :
                /\ \E i \in 1..Len(output.candidates) :
                      output.candidates[i] = output.suppliers[j]
                /\ output.suppliers[j] =
                      C2_FirstWithKey(output.candidates, C2_Key(output.suppliers[j]))

\* C2's case: two candidates with the same website and different names, of
\* which only the first is returned
C2_Witness ==
    /\ op = "analyze_supplier_results"
    /\ Len(output.candidates) = 2
    /\ output.candidates[1].website # <<>>
    /\ output.candidates[1].website = output.candidates[2].website
    /\ output.candidates[1].name # output.candidates[2].name
    /\ output.suppliers = <<output.candidates[1]>>

\* a supplier record carries a contact datum: a phone number in its contact
\* field, or an email address
C3_HasContactDatum(supplier) ==
    \/ supplier.contact_info # <<>>
    \/ "email_addresses" \in DOMAIN supplier /\ supplier.email_addresses # {}

\* C3: in snippet mode every supplier record emitted by _extract_supplier_info
\* and returned in the response carries a non-empty contact datum, a phone
\* number in its contact field or at least one email address.
C3_RecordsCarryContact ==
    /\ op = "analyze_supplier_results" =>
          \A i \in 1..Len(output.candidates) : C3_HasContactDatum(output.candidates[i])
    /\ op \in {"analyze_supplier_results", "search_suppliers"} =>
          \A i \in 1..Len(output.suppliers) : C3_HasContactDatum(output.suppliers[i])

\* C4: when the product cannot be resolved, search_by_product_data raises the
\* not-found ValueError before a query is generated, a provider call is made or
\* a session is saved, and the product-search endpoints answer 404; this is
\* the only condition that aborts the pipeline before the search is executed.
C4_OnlyNotFoundAborts ==
    op = "search_by_product_data" =>
        /\ input.db.kind # "found" =>
              /\ output.status = "raised"
              /\ output.error = "ValueError"
              /\ output.http = 404
              /\ output.search_queries = <<>>
              /\ calls = <<>>
              /\ ~output.saved
        /\ input.db.kind = "found" => calls # <<>>

\* the hits the provider listed for the search type, as far as search() reads
\* them; no list when the answer is an exception, no dict, has no entry for
\* the search type or has an entry that is no list
C5_Listed(outcome, search_type) ==
    LET key == CASE search_type = "web" -> "organic_results"
                 [] search_type = "news" -> "news_results"
                 [] search_type = "images" -> "images_results"
                 [] OTHER -> "none"
    IN  IF outcome.kind = "dict" /\ key \in DOMAIN outcome.data /\ outcome.data[key].is_list
        THEN <<SubSeq(outcome.data[key].items, 1,
                      Min(Len(outcome.data[key].items), MaxSearchResults))>>
        ELSE <<>>

\* C5 (as amended): SerpService.search never propagates an exception and
\* issues one provider request; total_results is the length of the result
\* list; the list is empty when the provider raises or its answer holds no
\* list of hits for the search type; otherwise it holds, in provider order and
\* within the cap, the hits that precede the first malformed hit.
C5_FailsSoftWithParsedPrefix ==
    op = "search" =>
        LET listed == C5_Listed(input.outcome, input.search_type)
            n == Len(output.results)
        IN  /\ Len(calls) = 1
            /\ output.total_results = n
            /\ listed = <<>> => n = 0
            /\ listed # <<>> =>
                  /\ n <= Len(listed[1])
                  /\ \A i \in 1..n :
                        /\ listed[1][i].shape = "dict"
                        /\ output.results[i].title = listed[1][i].title
                        /\ output.results[i].link = listed[1][i].link
                        /\ output.results[i].snippet = listed[1][i].snippet
                        /\ output.results[i].position = i
                  /\ n < Len(listed[1]) => listed[1][n + 1].shape # "dict"

\* C5's case: a malformed hit after a well-formed one, and the well-formed one
\* is returned
C5_Witness ==
    /\ op = "search"
    /\ C5_Listed(input.outcome, input.search_type) # <<>>
    /\ \E i \in 1..Len(C5_Listed(input.outcome, input.search_type)[1]) :
          C5_Listed(input.outcome, input.search_type)[1][i].shape # "dict"
    /\ output.results # <<>>

\* C5 as stated: on an exception of the provider client and on malformed or
\* unexpected response data, search returns an empty result list and
\* total_results = 0.
C5_EmptyOnAnyMalformedData ==
    op = "search" =>
        LET listed == C5_Listed(input.outcome, input.search_type)
        IN  (\/ listed = <<>>
             \/ \E i \in 1..Len(listed[1]) : listed[1][i].shape # "dict")
            => output.results = <<>> /\ output.total_results = 0

\* C6: search_with_fallback issues at most two provider calls, the primary one
\* and one fallback call that is made if and only if the primary call returned
\* no results; the value returned is the result of the last call issued.
C6_AtMostOneFallback ==
    op = "search_with_fallback" =>
        /\ Len(calls) \in {1, 2}
        /\ Len(input.answers) = Len(calls)
        /\ Len(calls) = 2 <=>
              search(input.query, input.search_type, input.kwargs,
                     input.answers[1]).response.results = <<>>
        /\ output = search(input.query, input.search_type, input.kwargs,
                           input.answers[Len(calls)]).response

\* C6's case: the primary call returned nothing, the fallback call was made and
\* its results are returned
C6_Witness ==
    /\ op = "search_with_fallback"
    /\ Len(calls) = 2
    /\ output.results # <<>>

\* C7: every provider request issued through SerpService.search_suppliers for
\* a product that has a location carries the country code (gl) and language
\* (hl) LocationService resolves from the product's location, the query text
\* and the result-count cap.
C7_RequestsCarryProductLocale ==
    (/\ op = "serp_search_suppliers"
     /\ input.product_data # <<>>
     /\ input.product_data[1].location # <<>>) =>
        \A i \in 1..Len(calls) :
            /\ calls[i].gl =
                  detect_country_and_language(input.product_data[1].location).country_code
            /\ calls[i].hl =
                  detect_country_and_language(input.product_data[1].location).language
            /\ Contains(calls[i].q, input.query)
            /\ calls[i].num <= MaxSearchResults

C9_Matched(location) ==
    {k \in 1..Len(country_language_map) :
        Contains(Strip(Lower(location)), country_language_map[k].key)}

\* C9: detect_country_and_language is total: for a location
\* that contains a key of the table it returns the country code and language
\* of a matched entry ('Berlin, Germany' -> de/de, 'New York, USA' -> us/en),
\* for the empty string and a string matching no entry the default kz/ru.
C9_ResolverTotal ==
    op = "detect_country_and_language" =>
        /\ C9_Matched(input.location) # {} =>
              \E k \in C9_Matched(input.location) :
                  /\ output.country_code = country_language_map[k].country_code
                  /\ output.language = country_language_map[k].language
        /\ (input.location = <<>> \/ C9_Matched(input.location) = {}) =>
              output.country_code = "kz" /\ output.language = "ru"
        /\ input.location = Loc_Berlin_Germany =>
              output.country_code = "de" /\ output.language = "de"
        /\ input.location = Loc_New_York_USA =>
              output.country_code = "us" /\ output.language = "en"

\* C9's case: a location without any key of the table resolved to the default
C9_Witness ==
    /\ op = "detect_country_and_language"
    /\ input.location # <<>>
    /\ C9_Matched(input.location) = {}
    /\ output.country_code = "kz"

C10_KnownStrategies == {"direct", "catalog", "trusted", "local"}

\* C10: the number of queries _generate_supplier_queries returns depends on
\* (strategy, hasAmount, hasDate) only: a known strategy gives 3 base queries,
\* a delivery date adds one, and an amount adds one amount-suffixed
\* counterpart for every query (direct: 8 with both, 3 with neither).
C10_QueryCount ==
    (op = "generate_supplier_queries" /\ input.strategy \in C10_KnownStrategies) =>
        Len(output.queries) =
            (3 + (IF input.date_and_time # <<>> THEN 1 ELSE 0))
                * (IF input.amount # <<>> THEN 2 ELSE 1)

\* C11: phone extraction returns a duplicate-free set of normalized numbers
\* (only digits and '+'), running it twice on a text yields the same set, and
\* a number that occurs twice in the text, as in
\* 'Tel: +1-555-123-4567, +1-555-123-4567', yields exactly one entry.
C11_OneEntryPerNumber ==
    /\ op = "extract_phone_numbers" =>
          /\ output.again = output.phone_numbers
          /\ \A number \in output.phone_numbers :
                \A i \in 1..Len(number) : number[i] \in Digits \cup {"+"}
          /\ input.text = PhoneText_repeated => Cardinality(output.phone_numbers) = 1
    /\ op = "extract_contact_info" =>
          /\ \A i, j \in 1..Len(output.all_phones) :
                i # j => output.all_phones[i] # output.all_phones[j]
          /\ input.text = PhoneText_repeated => Len(output.all_phones) = 1

\* the number of digits of a match or of an extracted number
C12_DigitsOf(number) == Len(SelectSeq(number, LAMBDA c : c \in Digits))

\* C12: every number in the strict extraction output (the phones of
\* _extract_contact_info, the numbers of _extract_phone_numbers) has at least
\* 10 digits; the gate _has_phone_number accepts exactly when one of its
\* matches has at least 7 digits; and a text whose matches all have fewer than
\* 10 digits contributes nothing to the strict output.
C12_DigitGates ==
    /\ op = "extract_phone_numbers" =>
          \A number \in output.phone_numbers : C12_DigitsOf(number) >= 10
    /\ op = "extract_contact_info" =>
          /\ \A i \in 1..Len(output.all_phones) : C12_DigitsOf(output.all_phones[i]) >= 10
          /\ output.has_phone <=>
                \E i \in 1..Len(output.matches) : C12_DigitsOf(output.matches[i]) >= 7
          /\ (\A i \in 1..Len(output.matches) : C12_DigitsOf(output.matches[i]) < 10) =>
                output.all_phones = <<>>

\* C12's case: a 9-digit number passes the gate and leaves the strict output
\* empty
C12_Witness ==
    /\ op = "extract_contact_info"
    /\ input.text = PhoneText_nine
    /\ output.has_phone
    /\ \E i \in 1..Len(output.matches) : C12_DigitsOf(output.matches[i]) = 9
    /\ output.all_phones = <<>>
    /\ output.contact_info = <<>>

\* C17: every URL that _discover_business_pages verifies with a request or
\* returns, other than the base URL itself, is on the same scheme and host as
\* the base URL.
C17_StaysOnDomain ==
    op = "discover_business_pages" =>
        /\ \A i \in 1..Len(output.urls) :
              output.urls[i] # input.base_url =>
                  UrlOrigin(output.urls[i]) = UrlOrigin(input.base_url)
        /\ \A i \in 1..Len(calls) :
              calls[i].url # input.base_url =>
                  UrlOrigin(calls[i].url) = UrlOrigin(input.base_url)

\* the list holds no URL twice and starts with the base URL
C18_WellFormed(urls, base_url) ==
    /\ urls # <<>>
    /\ urls[1] = base_url
    /\ \A i, j \in 1..Len(urls) : i # j => urls[i] # urls[j]

\* a step of the discovery failed: the request for the base page or a
\* verification request raised, the base page answered another status than
\* 200, or an exception ended the processing of the links
C18_StepFailed ==
    \/ \E i \in 1..Len(calls) : calls[i].failed
    \/ input.answer.get # "ok"
    \/ input.answer.status # 200
    \/ output.interrupted

C15_Fetched == input.answer.get = "ok" /\ input.answer.status \in 200..299

\* text is what a text of at least its length begins with
C15_IsPrefix(text, of) ==
    /\ TextLen(text) <= TextLen(of)
    /\ Len(text.chars) <= Len(of.chars)
    /\ text.chars = SubSeq(of.chars, 1, Len(text.chars))
    /\ text.pad > 0 => text.chars = of.chars

\* C15: _scrape_webpage_content never raises to its caller; on a connection,
\* timeout, HTTP-status or parsing failure it returns the empty string, and on
\* success it returns the first 5000 characters of the sanitized page text
\* (all of it when it is shorter).
C15_EmptyOrFirst5000 ==
    op = "scrape_webpage_content" =>
        /\ ~output.raised
        /\ ~C15_Fetched => TextLen(output.text) = 0
        /\ C15_Fetched =>
              /\ TextLen(output.text) <= 5000
              /\ C15_IsPrefix(output.text, CleanText(input.answer.text))
              /\ TextLen(output.text) < 5000 =>
                    TextLen(output.text) = TextLen(CleanText(input.answer.text))

\* C15's case: a page of more than 5000 characters, of which 5000 are returned
C15_Witness ==
    /\ op = "scrape_webpage_content"
    /\ C15_Fetched
    /\ TextLen(CleanText(input.answer.text)) > 5000
    /\ TextLen(output.text) = 5000

\* the sites of a request whose home page gives the page fetch no text
C13_EmptySites ==
    {SiteUrl(j) : j \in {k \in Sites : KindOf(input.sites, k) \in
                                           {"unreachable", "http_error", "blank"}}}

\* C13: when the page fetch for a hit returns empty text (unreachable URL,
\* HTTP error, timeout), _check_webpage_requirements returns meets_requirements
\* = false with the reason 'Could not access webpage content' and an empty
\* phone list without calling the classifier, and in find_suppliers that hit
\* contributes no business.
C13_NoContentNoClassifier ==
    /\ (/\ op = "check_webpage_requirements"
        /\ (input.answer.get # "ok" \/ input.answer.status \notin 200..299)) =>
            /\ ~output.raised
            /\ output.analysis.meets_requirements = FALSE
            /\ output.analysis.reason = <<"Could not access webpage content">>
            /\ output.analysis.phone_numbers = {}
            /\ \A i \in 1..Len(calls) : calls[i].method # "CLASSIFY"
    /\ op = "find_suppliers" =>
          /\ \A i \in 1..Len(calls) :
                calls[i].method = "CLASSIFY" => calls[i].url \notin C13_EmptySites
          /\ \A i \in 1..Len(output.businesses) :
                output.businesses[i].url \notin C13_EmptySites
          /\ \A i \in 1..Len(output.analyses) :
                output.analyses[i].url \in C13_EmptySites =>
                    output.analyses[i].analysis =
                        [meets_requirements |-> FALSE,
                         reason |-> <<"Could not access webpage content">>,
                         phone_numbers |-> {}]

\* C13's case: a request with hits for unreachable sites and for qualified
\* ones, which returns the qualified ones only
C13_Witness ==
    /\ op = "find_suppliers"
    /\ \E i \in 1..Len(output.analyses) : output.analyses[i].url \in C13_EmptySites
    /\ \E i \in 1..Len(calls) :
          calls[i].method = "GET" /\ calls[i].failed /\ calls[i].stage = "first pass"
    /\ output.businesses # <<>>

\* the classifier step failed: the call raised, or what it returned is no
\* JSON object
C14_ClassifierFailed(verdict) == verdict.kind = "raises" \/ verdict.json # "object"

\* the raw error text of a failed classifier step
C14_ErrorText(verdict) ==
    IF verdict.kind = "raises" THEN verdict.error
    ELSE IF verdict.json = "invalid" THEN "Expecting value: line 1 column 1 (char 0)"
    ELSE IF verdict.json = "list" THEN "list indices must be integers or slices, not str"
    ELSE "object does not support item assignment"

\* the hits of a request that carry a URL, in provider order
C14_UrlHits ==
    LET listed == IF input.serp.json.type = "list" THEN input.serp.json.items
                  ELSE IF "shopping_results" \in DOMAIN input.serp.json.fields
                  THEN input.serp.json.fields.shopping_results.items
                  ELSE IF "organic_results" \in DOMAIN input.serp.json.fields
                  THEN input.serp.json.fields.organic_results.items
                  ELSE <<>>
    IN  SelectSeq(listed, LAMBDA hit : DOMAIN hit.fields \cap {"link", "url", "href"} # {})

\* C14: whenever the classifier call raises, is unavailable, or returns text
\* that is not a JSON object, the hit's analysis is meets_requirements = false
\* with the raw error text in its reason, no exception escapes
\* _check_webpage_requirements, and the remaining hits of the batch are still
\* analysed.
C14_ClassifierFailsSoft ==
    /\ (/\ op = "check_webpage_requirements"
        /\ input.answer.get = "ok" /\ input.answer.status = 200
        /\ TextLen(CleanText(input.answer.text)) > 0
        /\ C14_ClassifierFailed(input.verdict)) =>
            /\ ~output.raised
            /\ output.analysis.meets_requirements = FALSE
            /\ output.analysis.reason[Len(output.analysis.reason)] = C14_ErrorText(input.verdict)
            /\ output.analysis.phone_numbers = {}
    /\ (op = "find_suppliers" /\ input.serp.json.type \in {"list", "object"}
                              /\ ~output.raised) =>
            /\ Len(output.analyses) = Min(Len(C14_UrlHits), 10)
            /\ \A i \in 1..Len(output.analyses) :
                  \E j \in Sites :
                      /\ output.analyses[i].url = SiteUrl(j)
                      /\ KindOf(input.sites, j) \in {"raises", "invalid", "not_object"} =>
                            /\ output.analyses[i].analysis.meets_requirements = FALSE
                            /\ output.analyses[i].analysis.reason[1]
                                   = "Error analyzing webpage: "

\* C14's case: the classifier failed on the first hit of a request, and a later
\* hit of the request was analysed and qualified
C14_Witness ==
    /\ op = "find_suppliers"
    /\ Len(output.analyses) >= 3
    /\ output.analyses[1].analysis.reason[1] = "Error analyzing webpage: "
    /\ output.analyses[3].analysis.reason[1] = "Error analyzing webpage: "
    /\ \E i \in 2..Len(output.analyses) :
          /\ "meets_requirements" \in DOMAIN output.analyses[i].analysis
          /\ output.analyses[i].analysis.meets_requirements
    /\ output.businesses # <<>>

\* the requests of the first pass with the given method
C16_FirstPass(method) ==
    {i \in 1..Len(calls) : calls[i].method = method /\ calls[i].stage = "first pass"}

\* C16: for any number of search hits, _refine_search_results analyses the
\* first 10 hits that carry a URL, in provider order, and no more: at most 10
\* page fetches for qualification and at most 10 classifier calls per request.
C16_AnalyzeCap ==
    (op = "find_suppliers" /\ input.serp.json.type \in {"list", "object"} /\ ~output.raised) =>
        /\ Len(output.analyses) <= 10
        /\ Cardinality(C16_FirstPass("GET")) <= 10
        /\ Cardinality(C16_FirstPass("CLASSIFY")) <= 10
        /\ Cardinality(C16_FirstPass("GET")) = Len(output.analyses)
        /\ \A i \in 1..Len(output.analyses) :
              output.analyses[i].url
                  = GetFirst(C14_UrlHits[i].fields, <<"link", "url", "href">>, <<>>)

\* C16's case: more than 10 hits with a URL, of which 10 were fetched and
\* classified
C16_Witness ==
    /\ op = "find_suppliers"
    /\ input.serp.json.type \in {"list", "object"}
    /\ Len(C14_UrlHits) > 10
    /\ Cardinality(C16_FirstPass("GET")) = 10
    /\ Cardinality(C16_FirstPass("CLASSIFY")) = 10

\* C19: the list returned by find_suppliers (as the one returned by
\* search_suppliers) has passed through deduplication: it holds no two records
\* for the same website/URL.
C19_ResultsDeduplicated ==
    /\ op = "find_suppliers" =>
          \A i, j \in 1..Len(output.businesses) :
              i # j => output.businesses[i].url # output.businesses[j].url
    /\ (op = "search_suppliers" /\ output.status = "returned") =>
          \A i, j \in 1..Len(output.suppliers) :
              (i # j /\ output.suppliers[i].website # <<>>) =>
                  output.suppliers[i].website # output.suppliers[j].website

\* the response of the provider lists hits: it is an object with a list under
\* shopping_results, or without that key and with a list under organic_results
C20_Recognised ==
    /\ ~input.serp.raises
    /\ input.serp.json.type = "object"
    /\ \/ /\ "shopping_results" \in DOMAIN input.serp.json.fields
          /\ input.serp.json.fields.shopping_results.type = "list"
       \/ /\ "shopping_results" \notin DOMAIN input.serp.json.fields
          /\ "organic_results" \in DOMAIN input.serp.json.fields
          /\ input.serp.json.fields.organic_results.type = "list"

\* C20: when the provider call errors, returns nothing, or returns a response
\* in an unrecognised shape, find_suppliers returns the empty list and performs
\* no page fetch and no classifier call.
C20_FailsClosed ==
    (op = "find_suppliers" /\ ~C20_Recognised) =>
        /\ ~output.raised
        /\ output.businesses = <<>>
        /\ Len(calls) = 1

\* the country code belongs to a region of get_trusted_sources_by_region
C21_InRegion(country_code) ==
    country_code \in CisCountries \cup EastAsiaCountries \cup NorthAmericaCountries
                         \cup EuropeCountries

\* C21 as the specification words it: for a country code outside all regions
\* get_local_sources and get_trusted_sources_by_region return the default
\* global domain list rather than an empty result.
C21_DefaultForUnmatched ==
    (op = "regional_sources" /\ ~C21_InRegion(input.country_code)) =>
        /\ output.trusted_sources = TrustedGlobal
        /\ output.local_sources # <<>>

\* C21, amended: get_trusted_sources_by_region is a total lookup that returns
\* the list of the region for a country code of a known region and the default
\* global list for every other code; get_local_sources returns the three
\* directory hosts of the country for a CIS country code and the empty list
\* for every other code.
C21_TrustedDefaultLocalEmpty ==
    op = "regional_sources" =>
        /\ Len(output.trusted_sources) \in {3, 4}
        /\ SubSeq(output.trusted_sources, 1, 3) = TrustedGlobal
        /\ Len(output.trusted_sources) = 3 <=> ~C21_InRegion(input.country_code)
        /\ input.country_code \in CisCountries =>
              /\ output.trusted_sources[4] = "indiamart.com"
              /\ output.local_sources = <<<<input.country_code, "all.biz">>,
                                          <<input.country_code, "exportpages.com">>,
                                          <<input.country_code, "tradekey.com">>>>
        /\ input.country_code \in EastAsiaCountries \cup EuropeCountries =>
              output.trusted_sources[4] = "tradekey.com"
        /\ input.country_code \in NorthAmericaCountries =>
              output.trusted_sources[4] = "exportersindia.com"
        /\ input.country_code \notin CisCountries => output.local_sources = <<>>

\* C21's case: a country code outside every region was looked up
C21_Witness ==
    /\ op = "regional_sources"
    /\ input.country_code = "br"
    /\ output.trusted_sources = TrustedGlobal
    /\ output.local_sources = <<>>

\* the verification requests a discovery sent to a URL
C24_HeadRequests(url) ==
    {k \in 1..Len(calls) : calls[k].method = "HEAD" /\ calls[k].url = url}

\* the links of the base page that lead to a URL
C24_LinksTo(url) ==
    {j \in 1..Len(input.answer.links) :
        LET full_url == FullUrl(input.base_url, UrlOrigin(input.base_url),
                                Lower(input.answer.links[j].href))
        IN  ~full_url.raises /\ full_url.url = url}

\* C24: in page discovery at most one path hint is consumed per link: a URL
\* gets at most one verification request for each link that leads to it, also
\* when the verification request fails with an error, and at most one URL is
\* added per link.
C24_OneHintPerLink ==
    op = "discover_business_pages" =>
        /\ \A k \in 1..Len(calls) :
              calls[k].method = "HEAD" =>
                  Cardinality(C24_HeadRequests(calls[k].url))
                      <= Cardinality(C24_LinksTo(calls[k].url))
        /\ Len(output.urls) <= 1 + Len(input.answer.links)

\* the capped hits of a request: the first 10 hits that carry a URL
C22_Capped == SubSeq(C14_UrlHits, 1, Min(Len(C14_UrlHits), 10))

\* what the site of a URL does in the request: how its page answers and what
\* the classifier says of it
C22_Kind(url) == KindOf(input.sites, CHOOSE j \in Sites : SiteUrl(j) = url)

\* the ways a hit fails: its page cannot be fetched or is empty, or the
\* classifier step fails
C22_Failures == {"unreachable", "http_error", "blank", "raises", "invalid", "not_object"}

\* the URLs of a list of records, in order
C22_Urls(records) == [i \in 1..Len(records) |-> records[i].url]

\* C22: for the combinations of fetch errors and classifier errors among the
\* capped hits, each capped hit receives exactly one analysis outcome and one
\* fetch of the first pass, in provider order; a hit that failed is rejected
\* with a reason and is not in the returned list; every other hit gets the
\* verdict of its own page, whatever failed before or after it.
C22_FailuresIsolated ==
    (op = "find_suppliers" /\ input.serp.json.type \in {"list", "object"} /\ ~output.raised) =>
        /\ C22_Urls(output.analyses)
               = [i \in 1..Len(C22_Capped) |->
                     GetFirst(C22_Capped[i].fields, <<"link", "url", "href">>, <<>>)]
        /\ C22_Urls(SelectSeq(calls, LAMBDA r : r.method = "GET" /\ r.stage = "first pass"))
               = C22_Urls(output.analyses)
        /\ \A i \in 1..Len(output.analyses) :
              LET kind == C22_Kind(output.analyses[i].url)
                  analysis == output.analyses[i].analysis
              IN  /\ kind \in C22_Failures =>
                        /\ analysis.meets_requirements = FALSE
                        /\ analysis.reason # <<>>
                  /\ kind = "rejected" =>
                        /\ analysis.meets_requirements = FALSE
                        /\ analysis.reason = Reason_seller
                  /\ kind = "qualified" => analysis.meets_requirements = TRUE
        /\ C22_Urls(output.businesses)
               = C22_Urls(SelectSeq(output.analyses,
                                    LAMBDA a : C22_Kind(a.url) = "qualified"))

\* C22's case: among the capped hits of one request the classifier failed on
\* one, the fetch failed on another, and a hit after both was analysed and
\* returned
C22_Witness ==
    /\ op = "find_suppliers"
    /\ Len(output.analyses) >= 5
    /\ C22_Kind(output.analyses[1].url) = "raises"
    /\ C22_Kind(output.analyses[4].url) = "unreachable"
    /\ output.analyses[5].analysis.meets_requirements = TRUE
    /\ \E k \in 1..Len(output.businesses) :
          output.businesses[k].url = output.analyses[5].url

\* the requests of the second pass with the given method and URL
C23_SecondPass(method, url) ==
    {k \in 1..Len(calls) :
        calls[k].stage = "second pass" /\ calls[k].method = method /\ calls[k].url = url}

\* the records returned for a URL
C23_Records(url) == {k \in 1..Len(output.businesses) : output.businesses[k].url = url}

\* C23: _extract_phone_numbers_from_website is invoked for exactly the hits
\* whose analysis has meets_requirements = true, once each (one fetch of the
\* base page by the discovery and one by the extraction for every returned
\* record), and only after every capped hit has been classified; a rejected
\* hit triggers no discovery, HEAD or extraction request and is not returned.
C23_ContactsOfQualifiedOnly ==
    (op = "find_suppliers" /\ input.serp.json.type \in {"list", "object"} /\ ~output.raised) =>
        /\ \A k, l \in 1..Len(calls) :
              (calls[k].stage = "second pass" /\ calls[l].stage = "first pass") => l < k
        /\ \A k \in 1..Len(calls) : calls[k].method = "HEAD" => calls[k].stage = "second pass"
        /\ \A i \in 1..Len(output.analyses) :
              LET url == output.analyses[i].url
                  analysis == output.analyses[i].analysis
                  qualifies == /\ "meets_requirements" \in DOMAIN analysis
                               /\ analysis.meets_requirements
              IN  /\ qualifies <=> C23_Records(url) # {}
                  /\ Cardinality(C23_SecondPass("GET", url)) = 2 * Cardinality(C23_Records(url))
                  /\ Cardinality(C23_SecondPass("HEAD", url \o Anchor_contact.href))
                         = Cardinality(C23_Records(url))
        /\ Cardinality(DOMAIN output.businesses)
               = Cardinality({i \in 1..Len(output.analyses) :
                                 /\ "meets_requirements" \in DOMAIN output.analyses[i].analysis
                                 /\ output.analyses[i].analysis.meets_requirements})

\* C23's case: a request with rejected and qualified hits; the contact pages of
\* the qualified ones were searched after the last classification
C23_Witness ==
    /\ op = "find_suppliers"
    /\ \E i \in 1..Len(output.analyses) :
          /\ "meets_requirements" \in DOMAIN output.analyses[i].analysis
          /\ ~output.analyses[i].analysis.meets_requirements
    /\ Len(output.businesses) >= 2
    /\ \E k \in 1..Len(calls) : calls[k].method = "HEAD" /\ calls[k].stage = "second pass"
    /\ \A k \in 1..Len(output.businesses) :
          output.businesses[k].analysis.phone_numbers # {}

\* the candidates that carry a dedup key and a contact datum, by position
C25_WithContact(candidates, key) ==
    {i \in 1..Len(candidates) :
        C2_Key(candidates[i]) = key /\ C3_HasContactDatum(candidates[i])}

\* C25: when several candidates share a dedup key, the record kept for that
\* key is the first-seen one whose contact data is non-empty: an earlier
\* candidate with empty contact data does not displace a later candidate of the
\* same key that has contact data.
C25_FirstWithContactKept ==
    op = "analyze_supplier_results" =>
        \A j \in 1..Len(output.suppliers) :
            LET with_contact == C25_WithContact(output.candidates, C2_Key(output.suppliers[j]))
            IN  with_contact # {} =>
                    output.suppliers[j] =
                        output.candidates[CHOOSE i \in with_contact :
                                              \A k \in with_contact : i <= k]

\* the tokens of the normalized location: lowercased, punctuation replaced by
\* spaces, split at whitespace
C26_Tokens(location) ==
    Split(Strip(CollapseSpaces(ReplaceNonWord(Strip(Lower(location))))))

\* the table entry of a key
C26_Entry(key) ==
    country_language_map[CHOOSE k \in 1..Len(country_language_map) :
                             country_language_map[k].key = key]

\* the positions of the tokens that are keys of the table
C26_ExactTokens(location) ==
    {i \in 1..Len(C26_Tokens(location)) :
        \E k \in 1..Len(country_language_map) :
            country_language_map[k].key = C26_Tokens(location)[i]}

\* C26: the first token, in the order of the string, that is an exact key of
\* the country table decides the result; substring matching against the keys,
\* in table order, is used only when no token matches exactly; the default is
\* used only when neither matches.
C26_TokenThenSubstringThenDefault ==
    op = "detect_country_and_language" =>
        LET tokens == C26_Tokens(input.location)
            exact == C26_ExactTokens(input.location)
            partial == C9_Matched(input.location)
        IN  /\ exact # {} =>
                  output = CountryInfo(C26_Entry(tokens[CHOOSE i \in exact :
                                                           \A j \in exact : i <= j]))
            /\ (exact = {} /\ partial # {}) =>
                  output = CountryInfo(country_language_map[CHOOSE k \in partial :
                                                               \A j \in partial : k <= j])
            /\ (exact = {} /\ partial = {}) => output = DefaultCountryInfo
            /\ input.location = Loc_New_York_Berlin => output.country_code = "de"

\* C26's case: a location whose tokens name two known places of different
\* countries resolved to the country of the first of them
C26_Witness ==
    /\ op = "detect_country_and_language"
    /\ \E i, j \in C26_ExactTokens(input.location) :
          /\ i < j
          /\ C26_Entry(C26_Tokens(input.location)[i]).country_code
                 # C26_Entry(C26_Tokens(input.location)[j]).country_code
          /\ output.country_code = C26_Entry(C26_Tokens(input.location)[i]).country_code

\* the query ends with the amount appended
C27_Suffixed(query, amount) ==
    /\ Len(query) > Len(amount)
    /\ SubSeq(query, Len(query) - Len(amount), Len(query)) = Txt_space \o amount

\* the positions of a text in a list of queries
C27_Positions(queries, text) == {i \in 1..Len(queries) : queries[i] = text}

\* C27: with an amount present each template yields exactly one un-suffixed
\* query and one amount-suffixed query (never the amount twice, never the same
\* string twice), the un-suffixed queries keep template order, every
\* amount-suffixed query comes after its un-suffixed counterpart, and the
\* leading queries are the templates, so that truncating to the first K
\* queries keeps the K leading templates.
C27_OneSuffixPerTemplate ==
    (op = "generate_supplier_queries" /\ input.amount # <<>>) =>
        LET queries == output.queries
            templates == generate_supplier_queries(input.search_query, <<>>,
                             [location |-> input.location], input.strategy,
                             input.date_and_time)
        IN  /\ Len(queries) = 2 * Len(templates)
            /\ \A i, j \in 1..Len(queries) : i # j => queries[i] # queries[j]
            /\ SelectSeq(queries, LAMBDA q : ~C27_Suffixed(q, input.amount)) = templates
            /\ SubSeq(queries, 1, Len(templates)) = templates
            /\ \A t \in 1..Len(templates) :
                  /\ Cardinality(C27_Positions(queries, templates[t])) = 1
                  /\ Cardinality(C27_Positions(queries,
                                     templates[t] \o Txt_space \o input.amount)) = 1
                  /\ \A i \in C27_Positions(queries, templates[t]),
                        j \in C27_Positions(queries, templates[t] \o Txt_space \o input.amount) :
                        i < j
            /\ \A i \in 1..Len(queries) :
                  ~C27_Suffixed(queries[i], input.amount \o Txt_space \o input.amount)

\* C28: every query generated by _generate_supplier_queries contains the
\* human-readable form of the target location, for every strategy value and
\* every amount/date combination; the request {query 'laptop', location
\* 'Berlin, Germany', strategy direct} yields 3 base queries with that form.
C28_EveryQueryNamesLocation ==
    op = "generate_supplier_queries" =>
        /\ \A i \in 1..Len(output.queries) :
              Contains(output.queries[i], get_full_location_name(input.location))
        /\ (/\ input.strategy = "direct" /\ input.amount = <<>>
            /\ input.date_and_time = <<>>) => Len(output.queries) = 3

\* the search of the i-th query of a batch failed: the provider call raised
\* inside search(), or search() itself raised
C29_Failed(i) ==
    "max_results_none" \in DOMAIN input.kwargs \/ input.outcomes[i].kind = "exception"

\* C29: batch_search(queries) returns exactly len(queries) responses, the i-th
\* belonging to the i-th query whatever the order in which the concurrently
\* running searches complete, with an empty SearchResponse (no results) in
\* the place of every search that failed; a failing search does not alter the
\* others.
C29_ResponsesInQueryOrder ==
    (op = "batch_search" /\ pc = "done") =>
        /\ Len(output.responses) = Len(input.queries)
        /\ \A i \in 1..Len(input.queries) :
              /\ C29_Failed(i) =>
                    /\ output.responses[i].results = <<>>
                    /\ output.responses[i].total_results = 0
              /\ ~C29_Failed(i) =>
                    /\ output.responses[i].query = input.queries[i]
                    /\ Len(output.responses[i].results)
                           = Len(input.outcomes[i].data.organic_results.items)
                    /\ output.responses[i].results[1].link
                           = input.outcomes[i].data.organic_results.items[1].link

\* C29's case: the search of the second query completed before the search of
\* the first, the first failed, and the responses are in query order
C29_Witness ==
    /\ op = "batch_search"
    /\ pc = "done"
    /\ Len(input.queries) = 2
    /\ Len(calls) = 2
    /\ calls[1].q = input.queries[2]
    /\ calls[2].q = input.queries[1]
    /\ input.outcomes[1].kind = "exception"
    /\ output.responses[1] = SearchResponse(input.queries[1], <<>>)
    /\ output.responses[2].query = input.queries[2]
    /\ output.responses[2].results # <<>>

\* the provider requests of a run that search for the i-th generated query:
\* the query text is sent in parentheses inside the contact-page query
C30_CallsOf(i) ==
    {k \in 1..Len(calls) :
        Contains(calls[k].q, <<"(", "(">> \o output.queries_used[i] \o <<")">>)}

\* C30: search_suppliers runs a supplier search for every generated query, one
\* at a time and in generation order, with at most two provider calls per
\* query; a failed search of one query does not stop the searches of the later
\* queries, and queries_used is the full generated list in order, including
\* the queries whose search failed or returned nothing.
C30_EveryQuerySearchedInOrder ==
    op = "search_suppliers" =>
        LET n == Len(output.queries_used)
        IN  /\ output.queries_used =
                  generate_supplier_queries(input.request.search_query, input.request.amount,
                                            output.location_info,
                                            input.request.search_strategy,
                                            input.request.delivery_date)
            /\ Len(output.search_results) = n
            /\ \A k \in 1..Len(calls) :
                  Cardinality({i \in 1..n : k \in C30_CallsOf(i)}) = 1
            /\ \A i \in 1..n :
                  /\ Cardinality(C30_CallsOf(i)) \in {1, 2}
                  /\ Cardinality(C30_CallsOf(i)) = 2 <=>
                        input.answers[i][1] \in {ProviderException, EmptyAnswer}
                  /\ \A j \in 1..n :
                        i < j => \A k \in C30_CallsOf(i), l \in C30_CallsOf(j) : k < l

\* C30's case: the response of a request with several queries whose first
\* search failed in both provider calls and whose last search found a supplier
C30_Witness ==
    /\ op = "search_suppliers"
    /\ output.status = "returned"
    /\ Len(output.queries_used) >= 2
    /\ input.answers[1] = <<ProviderException, ProviderException>>
    /\ Cardinality(C30_CallsOf(1)) = 2
    /\ C30_CallsOf(Len(output.queries_used)) # {}
    /\ output.search_results[Len(output.queries_used)].results # <<>>
    /\ output.suppliers # <<>>
====
